---- MODULE Spec2Model ----
(***************************************************************************)
(* Model of build.js, the BSP Auto bookmarklet builder: metadata loading,  *)
(* source collection and ordering, bookmarklet URL encoding, HTML escaping *)
(* and card rendering.                                                     *)
(*                                                                         *)
(* Text is modelled as a sequence of characters; a character is a string   *)
(* of length one, except for the named characters LF, CR, TAB and BOM.     *)
(***************************************************************************)
EXTENDS Integers, Sequences, FiniteSets, TLC

VARIABLES
  pc,          \* position of the build script (top-level statements of build.js)
  srcDir,      \* the source directory: whether it exists and can be listed, and its
               \* entries [name, kind] in the sequence readdirSync lists them
  metaFile,    \* src/_meta.json: its kind ("none", "file", "dir") and raw text
  fileText,    \* raw text of every script file, by name
  pkgFile,     \* package.json: its kind and raw text
  lookups,     \* by file name, what git log and statSync answer for the file
  buildNow,    \* the instant new Date() gives during the run
  outPath,     \* dist/index.html: the state of dist ("exists", "missing", "blocked")
               \* and whether the file can be written
  allFiles,    \* const allFiles
  meta,        \* const meta
  stamp,       \* const version, buildTimestamp, metaLastChange
  ordered,     \* const ordered
  entries,     \* const entries (grows as the map callback runs)
  cardsHtml,   \* const cardsHtml: one card per entry, the text of each template hole
  output,      \* the writes of dist/index.html, its content, and the line printed
  encIn,       \* arguments of a call of toBookmarkletURL
  encOut,      \* its return value
  prevRun,     \* the document an earlier run over the same files wrote, and its instant
  storage,     \* localStorage item bspAutoBookingData as the autofill bookmarklet finds it
  page,        \* the booking page: which form fields exist and what they offer
  filled,      \* the form fields the bookmarklet has written, in the order written
  toasts       \* the messages showToast has shown, in the order shown

inputs == <<srcDir, metaFile, fileText, pkgFile, lookups, buildNow, outPath>>
enc == <<encIn, encOut>>
form == <<storage, page, filled, toasts>>

vars == <<pc, inputs, allFiles, meta, stamp, ordered, entries, cardsHtml, output, enc, prevRun, form>>

(* The autofill bookmarklet has not been clicked: no stored data, an empty  *)
(* page, nothing written and nothing shown.                                *)
NoData == [kind |-> "none", pickupStation |-> FALSE, returnStation |-> FALSE,
           pickupDate |-> "missing", returnDate |-> "missing",
           pickupTime |-> "missing", returnTime |-> "missing"]

NoPage == [start |-> "absent", end |-> "absent", from |-> "absent", to |-> "absent",
           heure_a |-> "absent", heure_d |-> "absent"]

FormIdle ==
  /\ storage = NoData
  /\ page = NoPage
  /\ filled = <<>>
  /\ toasts = <<>>

-----------------------------------------------------------------------------
(* Characters and text                                                     *)

LF == "\n"
CR == "\r"
TAB == "\t"
BOM == "BOM"


\* JavaScript WhiteSpace and LineTerminator, as matched by \s and removed by trim()
IsSpace(c) == c \in {" ", TAB, LF, CR, BOM}

\* the i flag of the regular expressions: the upper-case letters of the model
Lower(c) ==
  CASE c = "J" -> "j"
    [] c = "F" -> "f"
    [] c = "A" -> "a"
    [] OTHER -> c

\* the element of a one-element set: in  The({F(x) : x \in {e}})  the value of e is
\* computed once and F works on that value
The(S) == CHOOSE x \in S : TRUE

At(s, i) == IF i \in 1..Len(s) THEN s[i] ELSE "EOS"

\* the concatenation of the texts pieces[lo..hi]
RECURSIVE FlattenRange(_, _, _)
FlattenRange(pieces, lo, hi) ==
  IF lo > hi THEN <<>>
  ELSE IF lo = hi THEN pieces[lo]
  ELSE The({FlattenRange(pieces, lo, mid) \o FlattenRange(pieces, mid + 1, hi) :
              mid \in {(lo + hi) \div 2}})

Flatten(pieces) == The({FlattenRange(p, 1, Len(p)) : p \in {pieces}})

\* the least element of a set of positions, none when the set is empty
Least(hits, none) ==
  The({IF h = {} THEN none ELSE CHOOSE j \in h : \A k \in h : j <= k : h \in {hits}})

\* the greatest element of a set of positions, none when the set is empty
Greatest(hits, none) ==
  The({IF h = {} THEN none ELSE CHOOSE j \in h : \A k \in h : k <= j : h \in {hits}})

\* does literal lit occur in s at position i, letters compared case-insensitively
MatchCI(s, i, lit) ==
  \E p \in {i} :
    /\ p >= 1
    /\ p + Len(lit) - 1 <= Len(s)
    /\ \A k \in 1..Len(lit) : Lower(s[p + k - 1]) = lit[k]

MatchAt(s, i, lit) ==
  \E p \in {i} :
    /\ p >= 1
    /\ p + Len(lit) - 1 <= Len(s)
    /\ \A k \in 1..Len(lit) : s[p + k - 1] = lit[k]

\* \s* forwards from i: the first position at or after i that holds no white space
SkipWs(s, i) == Least({j \in i..Len(s) : ~IsSpace(s[j])}, Len(s) + 1)

\* \s* backwards from i: the last position at or before i that holds no white space
SkipWsBack(s, i) == Greatest({j \in 1..i : j <= Len(s) /\ ~IsSpace(s[j])}, 0)

Trim(str) == The({SubSeq(s, SkipWs(s, 1), SkipWsBack(s, Len(s))) : s \in {str}})

StripBOM(str) == The({IF Len(s) > 0 /\ s[1] = BOM THEN Tail(s) ELSE s : s \in {str}})

\* a mutant: only CR LF becomes LF, a CR on its own stays
NormalizeCrlfOnly(str) ==
  The({Flatten([i \in 1..Len(s) |->
                  IF s[i] = CR /\ At(s, i + 1) = LF THEN <<>> ELSE <<s[i]>>]) : s \in {str}})

\* replace(/\r\n?/g, "\n"): a CR becomes LF, the LF that follows a CR is dropped
NormalizeNewlines(str) ==
  The({Flatten([i \in 1..Len(s) |->
                  IF s[i] = CR THEN <<LF>>
                  ELSE IF s[i] = LF /\ At(s, i - 1) = CR THEN <<>>
                  ELSE <<s[i]>>]) : s \in {str}})

\* str.replace(/c/g, by) for a single character c
ReplaceChar(str, c, by) ==
  The({Flatten([i \in 1..Len(s) |-> IF s[i] = c THEN by ELSE <<s[i]>>]) : s \in {str}})

sJavascriptColon == <<"j","a","v","a","s","c","r","i","p","t",":">>
sFunction == <<"f","u","n","c","t","i","o","n">>
sAsync == <<"a","s","y","n","c">>
sArrow == <<"=", ">">>
sWrapPlain == <<"(">> \o sFunction \o <<"(", ")", "{">>
sWrapAsync == <<"(">> \o sAsync \o <<" ">> \o sFunction \o <<"(", ")", "{">>
sWrapEnd == <<"}", ")", "(", ")", ";">>

-----------------------------------------------------------------------------
(* normalizeBookmarkletSource                                              *)
(* The operators below take a text that is a value; positions found on the *)
(* way are bound with The so that each is computed once.                   *)

\* a mutant: the prefix is matched in lower case only
JsPrefixLenCaseSensitive(s) ==
  The({IF MatchAt(s, i, sJavascriptColon)
       THEN SkipWs(s, i + Len(sJavascriptColon)) - 1
       ELSE 0 : i \in {SkipWs(s, 1)}})

\* length of the match of /^\s*javascript:\s*/i, 0 when there is none
JsPrefixLen(s) ==
  The({IF MatchCI(s, i, sJavascriptColon)
       THEN SkipWs(s, i + Len(sJavascriptColon)) - 1
       ELSE 0 : i \in {SkipWs(s, 1)}})

\* {  after optional white space from position b: position after the brace, else 0
HeadBrace(s, from) == The({IF At(s, b) = "{" THEN b + 1 ELSE 0 : b \in {SkipWs(s, from)}})

\* function\s*\(\)\s*{  from position i: position after the brace, 0 if no match
HeadFunction(s, i) ==
  IF ~MatchCI(s, i, sFunction) THEN 0
  ELSE The({IF MatchAt(s, a, <<"(", ")">>) THEN HeadBrace(s, a + 2) ELSE 0 :
              a \in {SkipWs(s, i + Len(sFunction))}})

\* =>\s*{  after optional white space from position from
HeadArrowTail(s, from) ==
  The({IF MatchAt(s, b, sArrow) THEN HeadBrace(s, b + 2) ELSE 0 : b \in {SkipWs(s, from)}})

\* \(\s*\)\s*=>\s*{  from position i
HeadArrow(s, i) ==
  IF At(s, i) # "(" THEN 0
  ELSE The({IF At(s, a) = ")" THEN HeadArrowTail(s, a + 1) ELSE 0 :
              a \in {SkipWs(s, i + 1)}})

\* the four pattern heads, anchored at ^ : position where the captured body starts
IifeHead(s, k) ==
  IF At(s, 1) # "(" THEN 0
  ELSE The({CASE k = 1 -> HeadFunction(s, 2)
              [] k = 2 -> IF MatchCI(s, a, sAsync)
                          THEN HeadFunction(s, SkipWs(s, a + Len(sAsync)))
                          ELSE 0
              [] k = 3 -> HeadArrow(s, a)
              [] k = 4 -> IF MatchCI(s, a, sAsync)
                          THEN HeadArrow(s, SkipWs(s, a + Len(sAsync)))
                          ELSE 0 : a \in {SkipWs(s, 2)}})

\* }\)\(\);?$  (patterns 1, 2) and  }\)\s*\(\);?$  (patterns 3, 4), anchored at the
\* end of the text: position of the closing brace, 0 if the text has no such end
IifeTail(s, k) ==
  The({IF ~MatchAt(s, e - 1, <<"(", ")">>) THEN 0
       ELSE The({IF MatchAt(s, w - 1, <<"}", ")">>) THEN w - 1 ELSE 0 :
                   w \in {IF k \in {3, 4} THEN SkipWsBack(s, e - 2) ELSE e - 2}}) :
         e \in {IF At(s, Len(s)) = ";" THEN Len(s) - 1 ELSE Len(s)}})

IifeType(k) == IF k \in {2, 4} THEN "async" ELSE "plain"

IifePatterns == 1..4

\* cleaned.match(pattern): the greedy group ([\s\S]*) takes everything between the
\* head and the closing brace of the end
IifeMatch(s, k) ==
  The({IF h > 0 /\ t > 0 /\ t >= h
       THEN [ok |-> TRUE, body |-> SubSeq(s, h, t - 1)]
       ELSE [ok |-> FALSE, body |-> <<>>] :
         h \in {IifeHead(s, k)}, t \in {IifeTail(s, k)}})

\* text up to the trim of line 183
CleanSource(source) ==
  The({Trim(SubSeq(n, JsPrefixLen(n) + 1, Len(n))) :
         n \in {NormalizeNewlines(StripBOM(source))}})

\* the first pattern that matches the text, 0 when none does
FirstPattern(s) == Least({k \in IifePatterns : IifeMatch(s, k).ok}, 0)

\* a mutant: the IIFE patterns are tried whatever the wrap flag
NormalizeAlwaysUnwrap(source, wrap) ==
  The({IF k > 0
       THEN [code |-> IifeMatch(cleaned, k).body, wrap |-> wrap # FALSE,
             wrapperType |-> IifeType(k)]
       ELSE [code |-> cleaned, wrap |-> wrap # FALSE,
             wrapperType |-> IF wrap # FALSE THEN "plain" ELSE "none"] :
         cleaned \in {CleanSource(source.v)}, k \in {FirstPattern(CleanSource(source.v))}})

\* a mutant: a detected wrapper is always remembered as a plain one
NormalizeForgetsAsync(source, wrap) ==
  The({IF k > 0
       THEN [code |-> IifeMatch(cleaned, k).body, wrap |-> wrap # FALSE,
             wrapperType |-> "plain"]
       ELSE [code |-> cleaned, wrap |-> wrap # FALSE,
             wrapperType |-> IF wrap # FALSE THEN "plain" ELSE "none"] :
         cleaned \in {CleanSource(source.v)},
         k \in {IF wrap # FALSE THEN FirstPattern(CleanSource(source.v)) ELSE 0}})

\* a mutant: no IIFE detection at all, the cleaned text is always wrapped again
NormalizeNoDetection(source, wrap) ==
  [code |-> CleanSource(source.v), wrap |-> wrap # FALSE,
   wrapperType |-> IF wrap # FALSE THEN "plain" ELSE "none"]

\* a mutant: a source that is no string is turned into text (null gives "null")
NormalizeCoercesSource(source, wrap) ==
  The({[code |-> cleaned, wrap |-> wrap # FALSE,
        wrapperType |-> IF wrap # FALSE THEN "plain" ELSE "none"] :
         cleaned \in {IF source.t = "str" THEN CleanSource(source.v)
                      ELSE <<"n", "u", "l", "l">>}})

\* source is a JavaScript value; one that is no string gives the empty code.
\* shouldWrap is wrap !== false; the patterns are tried in turn only when it holds,
\* and the first that matches gives the code and the wrapper type
normalizeBookmarkletSource(source, wrap) ==
  IF source.t # "str"
  THEN [code |-> <<>>, wrap |-> wrap # FALSE,
        wrapperType |-> IF wrap # FALSE THEN "plain" ELSE "none"]
  ELSE
  The({IF k > 0
       THEN [code |-> IifeMatch(cleaned, k).body, wrap |-> wrap # FALSE,
             wrapperType |-> IifeType(k)]
       ELSE [code |-> cleaned, wrap |-> wrap # FALSE,
             wrapperType |-> IF wrap # FALSE THEN "plain" ELSE "none"] :
         cleaned \in {CleanSource(source.v)},
         k \in {IF wrap # FALSE THEN FirstPattern(CleanSource(source.v)) ELSE 0}})

-----------------------------------------------------------------------------
(* toBookmarkletURL                                                        *)

Letters ==
  {"a","b","c","d","e","f","g","h","i","j","k","l","m","n","o","p","q","r","s","t",
   "u","v","w","x","y","z","A","F","J"}
Digits == {"0","1","2","3","4","5","6","7","8","9"}

\* characters encodeURI leaves alone: unreserved marks and reserved characters plus #
UriKept ==
  Letters \cup Digits \cup
  {";", ",", "/", "?", ":", "@", "&", "=", "+", "$", "-", "_", ".", "!", "~", "*",
   "'", "(", ")", "#"}

\* the UTF-8 percent escapes of the other characters of the model
UriEscape(c) ==
  CASE c = " " -> <<"%","2","0">>
    [] c = "\"" -> <<"%","2","2">>
    [] c = "%" -> <<"%","2","5">>
    [] c = "<" -> <<"%","3","C">>
    [] c = ">" -> <<"%","3","E">>
    [] c = "\\" -> <<"%","5","C">>
    [] c = "{" -> <<"%","7","B">>
    [] c = "}" -> <<"%","7","D">>
    [] c = TAB -> <<"%","0","9">>
    [] c = LF -> <<"%","0","A">>
    [] c = CR -> <<"%","0","D">>
    [] c = BOM -> <<"%","E","F","%","B","B","%","B","F">>

encodeURI(str) ==
  The({Flatten([i \in 1..Len(s) |->
                  IF s[i] \in UriKept THEN <<s[i]>> ELSE UriEscape(s[i])]) : s \in {str}})

\* the code that is encoded (finalCode)
FinalCode(source, wrap) ==
  The({IF n.wrap
       THEN IF n.wrapperType = "async"
            THEN sWrapAsync \o n.code \o sWrapEnd
            ELSE sWrapPlain \o n.code \o sWrapEnd
       ELSE n.code : n \in {normalizeBookmarkletSource(source, wrap)}})

\* a mutant: the # characters are left as encodeURI leaves them
UrlWithoutHashEscape(source, wrap) ==
  sJavascriptColon \o encodeURI(FinalCode(source, wrap))

toBookmarkletURL(source, wrap) ==
  sJavascriptColon \o ReplaceChar(encodeURI(FinalCode(source, wrap)), "#", <<"%","2","3">>)

-----------------------------------------------------------------------------
(* escapeHtml                                                              *)

eAmp == <<"&","a","m","p",";">>
eLt == <<"&","l","t",";">>
eGt == <<"&","g","t",";">>
eQuot == <<"&","q","u","o","t",";">>
eApos == <<"&","#","0","3","9",";">>

\* a mutant: the ampersand is replaced last, after the entities were written
EscapeAmpLast(str) ==
  ReplaceChar(ReplaceChar(ReplaceChar(ReplaceChar(ReplaceChar(
    str, "<", eLt), ">", eGt), "\"", eQuot), "'", eApos), "&", eAmp)

escapeHtml(str) ==
  ReplaceChar(ReplaceChar(ReplaceChar(ReplaceChar(ReplaceChar(
    str, "&", eAmp), "<", eLt), ">", eGt), "\"", eQuot), "'", eApos)

-----------------------------------------------------------------------------
(* stripJsonComments                                                       *)

\* the while loop of a line comment: first position at or after i holding a newline
LineEnd(input, i) == Least({j \in i..Len(input) : input[j] = LF}, Len(input) + 1)

\* the while loop of a block comment: first position at or after i where */ starts
BlockEnd(input, i) ==
  Least({j \in i..Len(input) : input[j] = "*" /\ At(input, j + 1) = "/"}, Len(input) + 1)

\* a mutant: the string ends at the first quote, escaped or not
StringEndFirstQuote(s, from) == Least({j \in from..Len(s) : s[j] = "\""}, Len(s) + 1)

\* number of backslashes that stand directly before position j, not before from
BackslashRun(s, from, j) ==
  Least({k \in 1..(j - from) : s[j - k] # "\\"}, j - from + 1) - 1

\* the position where the string that opened before position from ends: the first
\* quote met while the escaped flag is off, that is after an even run of backslashes
StringEnd(s, from) ==
  Least({j \in from..Len(s) : s[j] = "\"" /\ BackslashRun(s, from, j) % 2 = 0},
        Len(s) + 1)

\* a mutant: /* is not seen as the start of a comment
NextSpecialNoBlock(input, i) ==
  Least({j \in i..Len(input) :
           \/ input[j] = "\""
           \/ input[j] = "/" /\ At(input, j + 1) = "/"}, Len(input) + 1)

\* first position at or after i, outside a string, that opens a string or a comment
NextSpecial(input, i) ==
  Least({j \in i..Len(input) :
           \/ input[j] = "\""
           \/ input[j] = "/" /\ At(input, j + 1) \in {"/", "*"}}, Len(input) + 1)

RECURSIVE StripFrom(_, _)

\* a string that opens at position j: copied up to its closing quote
StripString(input, plain, j) ==
  The({IF e > Len(input) THEN plain \o SubSeq(input, j, Len(input))
       ELSE plain \o SubSeq(input, j, e) \o StripFrom(input, e + 1) :
         e \in {StringEnd(input, j + 1)}})

\* a line comment that opens at position j: dropped, its newline kept
StripLine(input, plain, j) ==
  The({plain \o (IF n <= Len(input) THEN <<LF>> ELSE <<>>) \o StripFrom(input, n + 1) :
         n \in {LineEnd(input, j)}})

\* the for loop from position i on, outside a string, taken one run of plain
\* characters, one string or one comment at a time
StripFrom(input0, i0) ==
  The({IF i > Len(input) THEN <<>>
       ELSE The({IF j > Len(input) THEN SubSeq(input, i, j - 1)
                 ELSE IF input[j] = "\"" THEN StripString(input, SubSeq(input, i, j - 1), j)
                 ELSE IF input[j + 1] = "/" THEN StripLine(input, SubSeq(input, i, j - 1), j)
                 ELSE SubSeq(input, i, j - 1)
                        \o StripFrom(input, BlockEnd(input, j + 2) + 2) :
                   j \in {NextSpecial(input, i)}}) :
         input \in {input0}, i \in {i0}})

stripJsonComments(input) == StripFrom(input, 1)

-----------------------------------------------------------------------------
(* JSON values and JSON.parse                                              *)

JNull == [t |-> "null"]
Undefined == [t |-> "undefined"]
JBool(b) == [t |-> "bool", v |-> b]
JNum(n) == [t |-> "num", v |-> n]
JStr(s) == [t |-> "str", v |-> s]
JArr(a) == [t |-> "arr", v |-> a]
\* an object: its members [k, v] in the sequence they were added
JObj(m) == [t |-> "obj", v |-> m]

IsJsonWs(c) == c \in {" ", TAB, LF, CR}

SkipJsonWs(s, i) == Least({j \in i..Len(s) : ~IsJsonWs(s[j])}, Len(s) + 1)

ParseFail == [ok |-> FALSE, val |-> JNull, next |-> 0]
ParseOk(v, n) == [ok |-> TRUE, val |-> v, next |-> n]

SimpleEscapes == {"\"", "\\", "/", "b", "f", "n", "r", "t"}
Unescape(c) ==
  CASE c = "n" -> LF
    [] c = "r" -> CR
    [] c = "t" -> TAB
    [] c = "b" -> "BS"
    [] c = "f" -> "FF"
    [] OTHER -> c

\* the positions of s[i..e-1] that hold a backslash which starts an escape
EscapeLeads(s, i, e) == {j \in i..(e - 1) : s[j] = "\\" /\ BackslashRun(s, i, j) % 2 = 0}

\* a string literal whose opening quote stands before position i: its characters up
\* to the closing quote, escapes resolved; no control character, no unknown escape
ScanString(s0, i0) ==
  The({IF e > Len(s) THEN ParseFail
       ELSE The({IF \E j \in i..(e - 1) :
                      \/ s[j] \in {LF, CR, TAB}
                      \/ (j - 1) \in leads /\ s[j] \notin SimpleEscapes
                 THEN ParseFail
                 ELSE ParseOk(JStr(Flatten([k \in 1..(e - i) |->
                                 IF (i + k - 2) \in leads THEN <<Unescape(s[i + k - 1])>>
                                 ELSE IF (i + k - 1) \in leads THEN <<>>
                                 ELSE <<s[i + k - 1]>>])),
                              e + 1) : leads \in {EscapeLeads(s, i, e)}}) :
         s \in {s0}, i \in {i0}, e \in {StringEnd(s0, i0)}})

DigitVal(c) ==
  CASE c = "0" -> 0 [] c = "1" -> 1 [] c = "2" -> 2 [] c = "3" -> 3 [] c = "4" -> 4
    [] c = "5" -> 5 [] c = "6" -> 6 [] c = "7" -> 7 [] c = "8" -> 8 [] c = "9" -> 9

\* an integer literal without sign, fraction or exponent
RECURSIVE ScanDigits(_, _, _)
ScanDigits(s0, i0, acc0) ==
  The({IF At(s, i) \in Digits THEN ScanDigits(s, i + 1, acc * 10 + DigitVal(s[i]))
       ELSE ParseOk(JNum(acc), i) : s \in {s0}, i \in {i0}, acc \in {acc0}})

sNull == <<"n","u","l","l">>
sTrue == <<"t","r","u","e">>
sFalse == <<"f","a","l","s","e">>

RECURSIVE ParseValue(_, _)
RECURSIVE ParseElements(_, _, _)
RECURSIVE ParseMembers(_, _, _)

\* what follows the [ : the closing bracket or the elements
ParseArray(s, from) ==
  The({IF At(s, k) = "]" THEN ParseOk(JArr(<<>>), k + 1) ELSE ParseElements(s, k, <<>>) :
         k \in {SkipJsonWs(s, from)}})

\* what follows the { : the closing brace or the members
ParseObject(s, from) ==
  The({IF At(s, k) = "}" THEN ParseOk(JObj(<<>>), k + 1) ELSE ParseMembers(s, k, <<>>) :
         k \in {SkipJsonWs(s, from)}})

ParseValue(s0, i0) ==
  The({IF At(s, j) = "{" THEN ParseObject(s, j + 1)
       ELSE IF At(s, j) = "[" THEN ParseArray(s, j + 1)
       ELSE IF At(s, j) = "\"" THEN ScanString(s, j + 1)
       ELSE IF MatchAt(s, j, sNull) THEN ParseOk(JNull, j + Len(sNull))
       ELSE IF MatchAt(s, j, sTrue) THEN ParseOk(JBool(TRUE), j + Len(sTrue))
       ELSE IF MatchAt(s, j, sFalse) THEN ParseOk(JBool(FALSE), j + Len(sFalse))
       ELSE IF At(s, j) \in Digits /\ ~(At(s, j) = "0" /\ At(s, j + 1) \in Digits)
            THEN ScanDigits(s, j, 0)
       ELSE ParseFail : s \in {s0}, j \in {SkipJsonWs(s0, i0)}})

\* after an element v: a comma and more elements, or the closing bracket
AfterElement(s, v, acc) ==
  The({IF At(s, d) = "," THEN ParseElements(s, d + 1, Append(acc, v.val))
       ELSE IF At(s, d) = "]" THEN ParseOk(JArr(Append(acc, v.val)), d + 1)
       ELSE ParseFail : d \in {SkipJsonWs(s, v.next)}})

ParseElements(s0, i0, acc0) ==
  The({IF ~v.ok THEN ParseFail ELSE AfterElement(s, v, acc) :
         s \in {s0}, acc \in {acc0}, v \in {ParseValue(s0, i0)}})

\* after a member key : v: a comma and more members, or the closing brace
AfterMember(s, key, v, acc) ==
  The({IF At(s, d) = ","
       THEN ParseMembers(s, d + 1, Append(acc, [k |-> key.val.v, v |-> v.val]))
       ELSE IF At(s, d) = "}"
       THEN ParseOk(JObj(Append(acc, [k |-> key.val.v, v |-> v.val])), d + 1)
       ELSE ParseFail : d \in {SkipJsonWs(s, v.next)}})

\* after a member's key: the colon and the value
AfterKey(s, key, acc) ==
  The({IF At(s, c) # ":" THEN ParseFail
       ELSE The({IF ~v.ok THEN ParseFail ELSE AfterMember(s, key, v, acc) :
                   v \in {ParseValue(s, c + 1)}}) :
         c \in {SkipJsonWs(s, key.next)}})

ParseMembers(s0, i0, acc0) ==
  The({IF At(s, j) # "\"" THEN ParseFail
       ELSE The({IF ~key.ok THEN ParseFail ELSE AfterKey(s, key, acc) :
                   key \in {ScanString(s, j + 1)}}) :
         s \in {s0}, acc \in {acc0}, j \in {SkipJsonWs(s0, i0)}})

\* JSON.parse(text): ok is FALSE where it throws a SyntaxError
JsonParse(text0) ==
  The({IF r.ok /\ SkipJsonWs(text, r.next) = Len(text) + 1
       THEN [ok |-> TRUE, val |-> r.val]
       ELSE [ok |-> FALSE, val |-> JNull] :
         text \in {text0}, r \in {ParseValue(text0, 1)}})

\* value.key of a parsed value; a later member of the same key replaces an earlier
Get(value0, key) ==
  The({IF value.t # "obj" THEN Undefined
       ELSE The({IF hit = 0 THEN Undefined ELSE value.v[hit].v :
                   hit \in {Greatest({i \in 1..Len(value.v) : value.v[i].k = key}, 0)}}) :
         value \in {value0}})

\* ToBoolean
Truthy(value) ==
  CASE value.t \in {"null", "undefined"} -> FALSE
    [] value.t = "bool" -> value.v
    [] value.t = "num" -> value.v # 0
    [] value.t = "str" -> value.v # <<>>
    [] OTHER -> TRUE

-----------------------------------------------------------------------------
(* Files, listJs, readJsonFile, readMeta                                   *)

sDotJs == <<".","j","s">>
sVersion == <<"v","e","r","s","i","o","n">>
sOrder == <<"o","r","d","e","r">>
sItems == <<"i","t","e","m","s">>
sName == <<"n","a","m","e">>
sDesc == <<"d","e","s","c">>
sWrap == <<"w","r","a","p">>
sBookmarkName == <<"b","o","o","k","m","a","r","k","N","a","m","e">>

EndsWith(s, suffix) == MatchAt(s, Len(s) - Len(suffix) + 1, suffix)
StartsWith(s, prefix) == MatchAt(s, 1, prefix)

InSeq(seq, x) == \E i \in 1..Len(seq) : seq[i] = x

Names(dir) == [i \in 1..Len(dir.entries) |-> dir.entries[i].name]

listJs(dir) ==
  IF dir.exists
  THEN LET Eligible(f) == EndsWith(f, sDotJs) /\ ~StartsWith(f, <<"_">>)
       IN  SelectSeq(Names(dir), Eligible)
  ELSE <<>>

\* the text handed to JSON.parse: byte order mark removed, newlines normalized,
\* comments stripped, trimmed
CleanJsonText(text) == Trim(stripJsonComments(NormalizeNewlines(StripBOM(text))))

\* a mutant: the parser result is used although text follows the value
ReadJsonFileLenient(file) ==
  IF file.kind # "file" THEN JNull
  ELSE The({IF cleaned = <<>> THEN JNull
            ELSE The({IF r.ok THEN r.val ELSE JNull : r \in {ParseValue(cleaned, 1)}}) :
              cleaned \in {CleanJsonText(file.text)}})

\* null when the file does not exist, cannot be read (a directory), is empty after
\* the cleanup or does not parse
readJsonFile(file) ==
  IF file.kind # "file" THEN JNull
  ELSE The({IF cleaned = <<>> THEN JNull
            ELSE The({IF r.ok THEN r.val ELSE JNull : r \in {JsonParse(cleaned)}}) :
              cleaned \in {CleanJsonText(file.text)}})

\* the three fields of readMeta taken from the object m
MetaFields(m) ==
  The({[version |-> IF version.t = "str" THEN Trim(version.v) ELSE <<>>,
        order |-> IF order.t = "arr" THEN order.v ELSE <<>>,
        items |-> IF items.t \in {"obj", "arr"} THEN items ELSE JObj(<<>>)] :
         version \in {Get(m, sVersion)}, order \in {Get(m, sOrder)},
         items \in {Get(m, sItems)}})

readMeta(file) ==
  The({MetaFields(IF Truthy(parsed) THEN parsed ELSE JObj(<<>>)) :
         parsed \in {readJsonFile(file)}})

-----------------------------------------------------------------------------
(* Versions and timestamps                                                 *)
(* An instant is a natural number of half minutes.  The text of a date is  *)
(* a record: kind "iso" with the instant and the zone offset it is written *)
(* in, or kind "junk" (text that is no date), "empty" ("") or "null".      *)

UnitsPerMinute == 2

IsoText(t, zone) == [kind |-> "iso", t |-> t, zone |-> zone]
JunkText == [kind |-> "junk", t |-> 0, zone |-> 0]
EmptyText == [kind |-> "empty", t |-> 0, zone |-> 0]
NullText == [kind |-> "null", t |-> 0, zone |-> 0]

\* new Date(text).getTime(): the instant in a one-element sequence, NaN as <<>>
DateParse(text) == IF text.kind = "iso" THEN <<text.t>> ELSE <<>>

\* date.toISOString(): the instant written in UTC
toISOString(t) == IsoText(t, 0)

\* the local date and time of day to the minute
formatTimestamp(t) == [kind |-> "local", minute |-> t \div UnitsPerMinute]

Unknown == [kind |-> "unknown", minute |-> 0]

formatLastChangeAbsolute(isoString) ==
  IF DateParse(isoString) = <<>> THEN Unknown ELSE formatTimestamp(DateParse(isoString)[1])

\* the second try block: the modification time of the file, else the current instant
StatTime(stat, now) ==
  IF stat.ok /\ stat.mtime # <<>> THEN toISOString(stat.mtime[1]) ELSE toISOString(now)

\* a mutant: the modification time is used although the commit time is known
GetLastChangeStatFirst(lookup, now) ==
  IF lookup.stat.ok /\ lookup.stat.mtime # <<>> THEN toISOString(lookup.stat.mtime[1])
  ELSE IF lookup.git.ok /\ DateParse(lookup.git.output) # <<>>
       THEN toISOString(DateParse(lookup.git.output)[1])
  ELSE toISOString(now)

\* lookup is what git log and statSync give for the file: git.ok is FALSE when
\* execFileSync throws, stat.ok is FALSE when statSync throws
getLastChangeISO(lookup, now) ==
  IF lookup.git.ok /\ lookup.git.output.kind # "empty"
     /\ DateParse(lookup.git.output) # <<>>
  THEN toISOString(DateParse(lookup.git.output)[1])
  ELSE StatTime(lookup.stat, now)

\* the instants of the candidates that are non-empty strings and valid dates
ValidInstants(candidates) ==
  {candidates[i].t : i \in {j \in 1..Len(candidates) : DateParse(candidates[j]) # <<>>}}

\* a mutant: the first valid candidate is returned, later ones are not compared
FirstValidTimestampISO(candidates) ==
  The({IF first = 0 THEN NullText ELSE toISOString(candidates[first].t) :
         first \in {Least({j \in 1..Len(candidates) : DateParse(candidates[j]) # <<>>}, 0)}})

latestTimestampISO(candidates) ==
  The({IF valid = {} THEN NullText
       ELSE toISOString(CHOOSE t \in valid : \A u \in valid : u <= t) :
         valid \in {ValidInstants(candidates)}})

sZeroVersion == <<"0", ".", "0", ".", "0">>

\* pkg is what readJsonFile gave for package.json
resolveVersion(pkg, metaVersion) ==
  The({IF Truthy(pkg) /\ v.t = "str" /\ Trim(v.v) # <<>> THEN Trim(v.v)
       ELSE IF Trim(metaVersion) # <<>> THEN Trim(metaVersion)
       ELSE sZeroVersion : v \in {Get(pkg, sVersion)}})

versionDisplay(version) == IF StartsWith(version, <<"v">>) THEN version ELSE <<"v">> \o version

-----------------------------------------------------------------------------
(* ordered, entries, cardsHtml                                             *)

\* the strings of a sequence of JSON values
StringsOf(named) == [i \in 1..Len(named) |-> named[i].v]

\* a mutant: the files the order list does not name come first
OrderedRestFirst(order, files) ==
  LET Exists(e) == e.t = "str" /\ InSeq(files, e.v)
      Unnamed(f) == ~InSeq(order, JStr(f))
  IN  SelectSeq(files, Unnamed) \o The({StringsOf(named) : named \in {SelectSeq(order, Exists)}})

\* [...meta.order.filter(f => allFiles.includes(f)),
\*  ...allFiles.filter(f => !meta.order.includes(f))]
Ordered(order, files) ==
  LET Exists(e) == e.t = "str" /\ InSeq(files, e.v)
      Unnamed(f) == ~InSeq(order, JStr(f))
  IN  The({StringsOf(named) : named \in {SelectSeq(order, Exists)}}) \o SelectSeq(files, Unnamed)

\* typeof raw === "string" && raw.trim() ? raw.trim() : ""
\* a mutant: the text is taken as written, blanks and all
CleanStringNoTrim(raw0) == The({IF raw.t = "str" THEN raw.v ELSE <<>> : raw \in {raw0}})

CleanString(raw0) == The({IF raw.t = "str" THEN Trim(raw.v) ELSE <<>> : raw \in {raw0}})

FallbackName(file) ==
  IF EndsWith(file, sDotJs) THEN SubSeq(file, 1, Len(file) - Len(sDotJs)) ELSE file

\* the entry made of the cleaned fields of the file's configuration
\* a mutant: the flag tells whether there is a label, not whether it was configured
EntryFieldsFlagFromLabel(nameClean, desc, bookmarkNameClean, fallback, href, mtime) ==
  The({[name |-> name,
        desc |-> desc,
        href |-> href,
        mtime |-> mtime,
        bookmarkName |-> IF bookmarkNameClean # <<>> THEN bookmarkNameClean ELSE name,
        hasBookmarkName |-> (IF bookmarkNameClean # <<>> THEN bookmarkNameClean ELSE name) # <<>>] :
         name \in {IF nameClean # <<>> THEN nameClean ELSE fallback}})

EntryFields(nameClean, desc, bookmarkNameClean, fallback, href, mtime) ==
  The({[name |-> name,
        desc |-> desc,
        href |-> href,
        mtime |-> mtime,
        bookmarkName |-> IF bookmarkNameClean # <<>> THEN bookmarkNameClean ELSE name,
        hasBookmarkName |-> bookmarkNameClean # <<>>] :
         name \in {IF nameClean # <<>> THEN nameClean ELSE fallback}})

\* cfg = meta.items[file] || {}
ConfigOf(items, file) ==
  The({IF Truthy(found) THEN found ELSE JObj(<<>>) : found \in {Get(items, file)}})

\* a mutant: the code is wrapped only when the metadata asks for it
WrapOnlyWhenAsked(cfg) == The({rawWrap.t = "bool" /\ rawWrap.v : rawWrap \in {Get(cfg, sWrap)}})

\* a mutant: any falsy wrap (0, null, "") turns the wrapper off
WrapUnlessFalsy(cfg) ==
  The({rawWrap.t = "undefined" \/ Truthy(rawWrap) : rawWrap \in {Get(cfg, sWrap)}})

\* wrap handed to toBookmarkletURL: cfg.wrap !== false
WrapOf(cfg) == The({~(rawWrap.t = "bool" /\ ~rawWrap.v) : rawWrap \in {Get(cfg, sWrap)}})

\* combinedMtime || scriptMtime
EntryTime(scriptMtime, metaLastChange) ==
  The({IF combined.kind # "null" THEN combined ELSE scriptMtime :
         combined \in {latestTimestampISO(<<scriptMtime, metaLastChange>>)}})

\* the callback of ordered.map for one file with source text src, scriptMtime being
\* getLastChangeISO(full)
EntryOf(file, src, items, scriptMtime, metaLastChange) ==
  The({EntryFields(CleanString(Get(cfg, sName)), CleanString(Get(cfg, sDesc)),
                   CleanString(Get(cfg, sBookmarkName)), FallbackName(file),
                   toBookmarkletURL(JStr(src), WrapOf(cfg)),
                   EntryTime(scriptMtime, metaLastChange)) :
         cfg \in {ConfigOf(items, file)}})

\* the card of one entry: the text placed in each hole of the template, in the
\* attributes data-id, data-bookmark, data-bookmark-fallback and href, in the link
\* label, the name span, the bookmark line, the last-change badge (the ISO text in
\* data-last-change, the local time in data-last-change-absolute and in the label)
\* and the details block
CardOf(e) ==
  [dataId |-> escapeHtml(e.name),
   dataBookmark |-> escapeHtml(e.bookmarkName),
   dataBookmarkFallback |-> ~e.hasBookmarkName,
   href |-> e.href,
   label |-> escapeHtml(IF e.bookmarkName # <<>> THEN e.bookmarkName ELSE e.name),
   name |-> escapeHtml(e.name),
   bookmarkLine |-> [present |-> e.bookmarkName # <<>>,
                     isFallback |-> ~e.hasBookmarkName,
                     text |-> escapeHtml(e.bookmarkName)],
   lastChange |-> e.mtime,
   lastChangeAbsolute |-> formatLastChangeAbsolute(e.mtime),
   details |-> [present |-> e.desc # <<>>, text |-> escapeHtml(e.desc)]]

-----------------------------------------------------------------------------
(* The build script, statement by statement                                *)

sMetaJson == <<"_", "m", "e", "t", "a", ".", "j", "s", "o", "n">>

KindOf(dir, file) == dir.entries[Least({k \in 1..Len(dir.entries) : dir.entries[k].name = file}, 0)].kind

NoOutput == [writes |-> 0, doc |-> <<>>, summary |-> <<>>]

\* a document that carries a count of the runs made before it
HtmlCountingRuns(cards, stamped) ==
  [cards |-> cards,
   version |-> versionDisplay(stamped.version),
   buildTimestamp |-> [kind |-> "local",
                       minute |-> stamped.buildTimestamp.minute + Len(prevRun)]]

\* the document: the cards in the grid, and the version and build time of the footer
\* (the style sheet, the page script and the rest of the template are fixed text)
Html(cards, stamped) ==
  [cards |-> cards,
   version |-> versionDisplay(stamped.version),
   buildTimestamp |-> stamped.buildTimestamp]

\* ensureDir(DIST): mkdirSync throws when dist cannot be made
EnsureDir ==
  /\ pc = "ensureDir"
  /\ pc' = IF outPath.dir = "blocked" THEN "failed" ELSE "listJs"
  /\ UNCHANGED <<inputs, allFiles, meta, stamp, ordered, entries, cardsHtml, output, enc, prevRun, form>>

\* const allFiles = listJs(SRC): readdirSync throws when src cannot be listed
ListJs ==
  /\ pc = "listJs"
  /\ IF srcDir.exists /\ ~srcDir.readable
     THEN /\ pc' = "failed"
          /\ UNCHANGED allFiles
     ELSE /\ allFiles' = listJs(srcDir)
          /\ pc' = "readMeta"
  /\ UNCHANGED <<inputs, meta, stamp, ordered, entries, cardsHtml, output, enc, prevRun, form>>

ReadMeta ==
  /\ pc = "readMeta"
  /\ meta' = readMeta(metaFile)
  /\ pc' = "stamp"
  /\ UNCHANGED <<inputs, allFiles, stamp, ordered, entries, cardsHtml, output, enc, prevRun, form>>

\* const version, versionDisplay, buildNow, buildTimestamp, metaLastChange
Stamp ==
  /\ pc = "stamp"
  /\ stamp' = [version |-> resolveVersion(readJsonFile(pkgFile), meta.version),
               buildTimestamp |-> formatTimestamp(buildNow),
               metaLastChange |-> IF metaFile.kind # "none"
                                  THEN getLastChangeISO(lookups[sMetaJson], buildNow)
                                  ELSE NullText]
  /\ pc' = "ordered"
  /\ UNCHANGED <<inputs, allFiles, meta, ordered, entries, cardsHtml, output, enc, prevRun, form>>

ComputeOrdered ==
  /\ pc = "ordered"
  /\ ordered' = Ordered(meta.order, allFiles)
  /\ pc' = IF ordered' = <<>> THEN "cardsHtml" ELSE "entries"
  /\ UNCHANGED <<inputs, allFiles, meta, stamp, entries, cardsHtml, output, enc, prevRun, form>>

\* a build that, when a script cannot be read, still writes the cards made so far
BuildEntryWritesPartial ==
  /\ pc = "entries"
  /\ \E file \in {ordered[Len(entries) + 1]} :
       IF KindOf(srcDir, file) # "file"
       THEN /\ pc' = "failed"
            /\ output' = [writes |-> output.writes + 1,
                          doc |-> <<Html([i \in 1..Len(entries) |-> CardOf(entries[i])], stamp)>>,
                          summary |-> <<>>]
            /\ UNCHANGED entries
       ELSE /\ entries' = Append(entries,
                            EntryOf(file, fileText[file], meta.items,
                                    getLastChangeISO(lookups[file], buildNow),
                                    stamp.metaLastChange))
            /\ pc' = IF Len(entries') = Len(ordered) THEN "cardsHtml" ELSE "entries"
            /\ UNCHANGED output
  /\ UNCHANGED <<inputs, allFiles, meta, stamp, ordered, cardsHtml, enc, prevRun, form>>

\* one call of the map callback, for the next file of ordered: readFileSync throws
\* when the entry is no file that can be read
BuildEntry ==
  /\ pc = "entries"
  /\ \E file \in {ordered[Len(entries) + 1]} :
       IF KindOf(srcDir, file) # "file"
       THEN /\ pc' = "failed"
            /\ UNCHANGED entries
       ELSE /\ entries' = Append(entries,
                            EntryOf(file, fileText[file], meta.items,
                                    getLastChangeISO(lookups[file], buildNow),
                                    stamp.metaLastChange))
            /\ pc' = IF Len(entries') = Len(ordered) THEN "cardsHtml" ELSE "entries"
  /\ UNCHANGED <<inputs, allFiles, meta, stamp, ordered, cardsHtml, output, enc, prevRun, form>>

\* a mutant: the last entry gets no card
RenderAllButLast ==
  /\ pc = "cardsHtml"
  /\ cardsHtml' = [i \in 1..(Len(entries) - 1) |-> CardOf(entries[i])]
  /\ pc' = "writeFile"
  /\ UNCHANGED <<inputs, allFiles, meta, stamp, ordered, entries, output, enc, prevRun, form>>

RenderCards ==
  /\ pc = "cardsHtml"
  /\ cardsHtml' = [i \in 1..Len(entries) |-> CardOf(entries[i])]
  /\ pc' = "writeFile"
  /\ UNCHANGED <<inputs, allFiles, meta, stamp, ordered, entries, output, enc, prevRun, form>>

\* const html; fs.writeFileSync(OUT, html, "utf8"), which throws when the file cannot
\* be written; console.log of the number of entries
WriteFile ==
  /\ pc = "writeFile"
  /\ IF outPath.writable
     THEN /\ output' = [writes |-> output.writes + 1,
                        doc |-> <<Html(cardsHtml, stamp)>>,
                        summary |-> <<Len(entries)>>]
          /\ pc' = "done"
     ELSE /\ pc' = "failed"
          /\ UNCHANGED output
  /\ UNCHANGED <<inputs, allFiles, meta, stamp, ordered, entries, cardsHtml, enc, prevRun, form>>

Next ==
  \/ EnsureDir
  \/ ListJs
  \/ ReadMeta
  \/ Stamp
  \/ ComputeOrdered
  \/ BuildEntry
  \/ RenderCards
  \/ WriteFile

-----------------------------------------------------------------------------
(* The files of a run: directory listings, metadata texts, script texts    *)

MaxDir == 3
MaxOrder == 2
MaxStr == 3

RECURSIVE SeqsUpTo(_, _)
SeqsUpTo(S, n) ==
  IF n = 0 THEN {<<>>}
  ELSE LET shorter == SeqsUpTo(S, n - 1)
       IN  shorter \cup {<<c>> \o s : c \in S, s \in {x \in shorter : Len(x) = n - 1}}

fA == <<"a">> \o sDotJs
fB == <<"b">> \o sDotJs
fC == <<"c">> \o sDotJs
fZ == <<"z">> \o sDotJs
fUnder == <<"_", "x">> \o sDotJs
fTxt == <<"n", ".", "t", "x", "t">>

DirNames == {fA, fB, fC, fUnder, fTxt}

\* every listing readdirSync can return for a directory of at most n entries
Listings(S, n) ==
  {l \in SeqsUpTo(S, n) : \A i, j \in 1..Len(l) : i # j => l[i] # l[j]}

NoDir == [exists |-> FALSE, readable |-> FALSE, entries |-> <<>>]

DirOf(l) ==
  [exists |-> TRUE, readable |-> TRUE,
   entries |-> [i \in 1..Len(l) |-> [name |-> l[i], kind |-> "file"]]]

\* the text of the script files
ScriptText ==
  [f \in DirNames |->
     CASE f = fA -> <<"a", "#", "&", "a", "m", "p", ";">>
       [] f = fB -> sWrapPlain \o <<"b", CR, LF>> \o sWrapEnd
       [] OTHER -> <<"c">>]

\* writing a value down as JSON text
RECURSIVE JoinWith(_, _)
JoinWith(texts, sep) ==
  IF texts = <<>> THEN <<>>
  ELSE IF Len(texts) = 1 THEN texts[1]
  ELSE texts[1] \o sep \o JoinWith(Tail(texts), sep)

QuoteChars(s) ==
  Flatten([i \in 1..Len(s) |->
             IF s[i] \in {"\"", "\\"} THEN <<"\\", s[i]>> ELSE <<s[i]>>])

Quote(s) == <<"\"">> \o QuoteChars(s) \o <<"\"">>

ElementText(e) == IF e.t = "str" THEN Quote(e.v) ELSE <<"5">>

ArrayText(elems) ==
  <<"[">> \o JoinWith([i \in 1..Len(elems) |-> ElementText(elems[i])], <<",", " ">>)
    \o <<"]">>

\* { "order": [...], "items": ... }
DocText(orderElems, itemsText) ==
  <<"{", LF, " ">> \o Quote(sOrder) \o <<":">> \o ArrayText(orderElems) \o <<",", LF, " ">>
    \o Quote(sItems) \o <<":", " ">> \o itemsText \o <<LF, "}">>

Member(key, valueText) == Quote(key) \o <<":">> \o valueText
ObjectText(members) == <<"{">> \o JoinWith(members, <<",">>) \o <<"}">>

OrderElems == {JStr(fA), JStr(fB), JStr(fZ), JNum(5)}

sComment == <<"/", "/", " ", "c", "\"", LF>>
sBlock == <<"/", "*", " ", "/", "/", " ", "*", "/">>

WithBomCrlf(text) == <<BOM>> \o ReplaceChar(text, LF, <<CR, LF>>) \o <<CR, LF>>
WithComments(text) == sComment \o ReplaceChar(text, LF, <<LF>> \o sBlock) \o sComment

\* texts that are no JSON after the cleanup: text after the value, a cut-off value,
\* a stray shell-style comment, a BOM inside the text
Broken(text) ==
  { text \o <<"x">>,
    SubSeq(text, 1, Len(text) - 1),
    <<"#", " ", "c", LF>> \o text,
    <<" ", BOM>> \o text \o <<BOM, ",">> }

\* texts that are empty after the cleanup
EmptyTexts == { <<>>, <<" ", LF>>, <<BOM>>, sComment, <<BOM>> \o sBlock \o <<CR, LF>> }

MetaOrders == { <<>>, <<JStr(fB)>>, <<JStr(fB), JStr(fA)>> }

MetaItems ==
  { ObjectText(<<>>),
    ObjectText(<< Member(fA, ObjectText(<<
        Member(sName, Quote(<<" ", "<", "b", ">", " ">>)),
        Member(sDesc, Quote(<<"/", "/", "d">>)) >>)) >>),
    ObjectText(<< Member(fB, ObjectText(<<
        Member(sWrap, sFalse),
        Member(sBookmarkName, Quote(<<"B", "&">>)) >>)) >>) }

MetaDocs == { DocText(o, it) : o \in MetaOrders, it \in MetaItems }

GoodMetaTexts ==
  MetaDocs \cup {WithBomCrlf(d) : d \in MetaDocs} \cup {WithComments(d) : d \in MetaDocs}

BrokenMetaTexts == UNION {Broken(d) : d \in MetaDocs}

MetaFiles ==
  { [kind |-> "none", text |-> <<>>], [kind |-> "dir", text |-> <<>>] } \cup
  { [kind |-> "file", text |-> x] : x \in GoodMetaTexts \cup BrokenMetaTexts \cup EmptyTexts }

NoStamp == [version |-> <<>>, buildTimestamp |-> Unknown, metaLastChange |-> NullText]

NotStarted ==
  /\ pc = "ensureDir"
  /\ allFiles = <<>>
  /\ meta = [version |-> <<>>, order |-> <<>>, items |-> JObj(<<>>)]
  /\ stamp = NoStamp
  /\ ordered = <<>>
  /\ entries = <<>>
  /\ cardsHtml = <<>>
  /\ output = NoOutput
  /\ encIn = <<>>
  /\ encOut = <<>>
  /\ prevRun = <<>>
  /\ FormIdle

NoFile == [kind |-> "none", text |-> <<>>]

\* the file is not under version control and was modified at instant t
Untracked(t) ==
  [git |-> [ok |-> FALSE, output |-> EmptyText], stat |-> [ok |-> TRUE, mtime |-> <<t>>]]

Paths == DirNames \cup {sMetaJson}

\* no package.json, no history, every file modified at instant 1, the run at instant
\* 2, dist in place and writable
PlainSurroundings ==
  /\ pkgFile = NoFile
  /\ lookups = [f \in Paths |-> Untracked(1)]
  /\ buildNow = 2
  /\ outPath = [dir |-> "exists", writable |-> TRUE]

\* a run over a damaged, decorated or missing metadata file
Init ==
  /\ NotStarted
  /\ srcDir \in { NoDir, DirOf(<<>>), DirOf(<<fA, fB>>), DirOf(<<fUnder, fC, fB, fA>>) }
  /\ metaFile \in MetaFiles
  /\ fileText = ScriptText
  /\ PlainSurroundings

Spec == Init /\ [][Next]_vars

\* a run over every directory listing and every order list
InitOrder ==
  /\ NotStarted
  /\ srcDir \in { DirOf(l) : l \in Listings(DirNames, MaxDir) }
  /\ \E o \in SeqsUpTo(OrderElems, MaxOrder) :
       metaFile = [kind |-> "file", text |-> DocText(o, ObjectText(<<>>))]
  /\ fileText = ScriptText
  /\ PlainSurroundings

SpecOrder == InitOrder /\ [][Next]_vars

\* names, labels and descriptions written in the metadata file
NameChars == {"&", "<", ">", "\"", "'", "a"}
sScriptTag == <<"<", "s", "c", "r", "i", "p", "t", ">">>
CardTexts ==
  SeqsUpTo(NameChars, MaxStr) \cup {sScriptTag, eAmp, eLt \o <<"&">>, <<" ", "'", " ">>}

\* the JSON text of a field: a string, blank or not, or a value that is no string
CardValues ==
  {Quote(text) : text \in CardTexts} \cup
  {Quote(<<" ", " ">>), Quote(<<>>), <<"5">>, sNull, sTrue}

CardFields == {sName, sDesc, sBookmarkName}

\* a run over one script whose configuration sets one text field
InitCards ==
  /\ NotStarted
  /\ srcDir = DirOf(<<fA>>)
  /\ \E field \in CardFields, value \in CardValues :
       metaFile = [kind |-> "file",
                   text |-> DocText(<<>>, ObjectText(<<
                              Member(fA, ObjectText(<<Member(field, value)>>)) >>))]
  /\ fileText = ScriptText
  /\ PlainSurroundings

SpecCards == InitCards /\ [][Next]_vars

-----------------------------------------------------------------------------
(* Runs over what a source directory can hold and over what can go wrong   *)

fDot == sDotJs
fSub == <<"x">> \o sDotJs

\* directory entries: scripts, a file named .js, files with the reserved prefix
\* (the metadata file among them) and a sub-directory whose name ends in .js
BuildEntries ==
  { [name |-> fA, kind |-> "file"], [name |-> fB, kind |-> "file"],
    [name |-> fDot, kind |-> "file"], [name |-> fUnder, kind |-> "file"],
    [name |-> sMetaJson, kind |-> "file"], [name |-> fSub, kind |-> "dir"] }

BuildNames == {e.name : e \in BuildEntries}

DirWith(l) == [exists |-> TRUE, readable |-> TRUE, entries |-> l]

\* a directory that exists and cannot be listed
LockedDir == [exists |-> TRUE, readable |-> FALSE, entries |-> <<>>]

BuildDirs ==
  {NoDir, LockedDir} \cup { DirWith(l) : l \in Listings(BuildEntries, MaxDir) }

\* a.js is named and described, the name given for .js is blank
BuildItems ==
  ObjectText(<< Member(fA, ObjectText(<< Member(sName, Quote(<<" ", "n", " ">>)),
                                         Member(sDesc, Quote(<<"d">>)) >>)),
                Member(fDot, ObjectText(<< Member(sName, Quote(<<" ">>)) >>)) >>)

BuildMetas ==
  { NoFile, [kind |-> "file", text |-> DocText(<<JStr(fB)>>, BuildItems)] }

OutPaths ==
  { [dir |-> "exists", writable |-> TRUE], [dir |-> "missing", writable |-> TRUE],
    [dir |-> "blocked", writable |-> FALSE], [dir |-> "exists", writable |-> FALSE] }

InitBuild ==
  /\ NotStarted
  /\ srcDir \in BuildDirs
  /\ metaFile \in BuildMetas
  /\ fileText = [f \in BuildNames |-> <<"c">>]
  /\ pkgFile = NoFile
  /\ lookups = [f \in BuildNames |-> Untracked(1)]
  /\ buildNow = 2
  /\ outPath \in OutPaths

SpecBuild == InitBuild /\ [][Next]_vars

-----------------------------------------------------------------------------
(* A call of toBookmarkletURL on a bounded set of source texts             *)

MaxBody == 2

BodyChars == {"a", "#", "\"", CR, "}"}
Bodies == SeqsUpTo(BodyChars, MaxBody)

\* what surrounds the wrapper: nothing, white space, a BOM and a javascript: prefix
Frames ==
  { [pre |-> <<>>, post |-> <<>>],
    [pre |-> <<" ", LF>>, post |-> <<" ", CR, LF>>],
    [pre |-> <<BOM>> \o sJavascriptColon, post |-> <<>>],
    [pre |-> <<CR, LF, "J","a","v","a","s","c","r","i","p","t",":", " ">>,
     post |-> <<LF>>] }

ShapeHeads ==
  << sWrapPlain,
     sWrapAsync,
     <<"(", "(", ")", "=", ">", "{">>,
     <<"(">> \o sAsync \o <<" ", "(", ")", "=", ">", "{">> >>

\* the four shapes as written, white-space variants of them, and texts of no shape
Heads ==
  { ShapeHeads[k] : k \in 1..4 } \cup
  { <<>>,
    <<"(">> \o sFunction \o <<" ", "(", ")", LF, "{">>,
    <<"(", " ">> \o sAsync \o <<" ", "(", " ", ")", " ", "=", ">", " ", "{">>,
    <<"(">> \o sFunction \o <<"(", "x", ")", "{">>,
    <<"(", " ">> \o sFunction \o <<"(", ")", "{">> }

ShapeTails == { <<"}", ")", "(", ")">>, sWrapEnd }

Tails ==
  ShapeTails \cup
  { <<>>,
    <<"}", ")", " ", "(", ")", ";">>,
    <<"}", ")", "(", ")", ";", ";">> }

Source(in) == in.pre \o in.head \o in.body \o in.tail \o in.post

EncInputs ==
  { [pre |-> f.pre, head |-> h, body |-> b, tail |-> tl, post |-> f.post, wrap |-> w] :
      f \in Frames, h \in Heads, b \in Bodies, tl \in Tails, w \in BOOLEAN }

NoCall == <<>>

\* the build script is not running
ScriptIdle ==
  /\ srcDir = NoDir
  /\ metaFile = NoFile
  /\ fileText = <<>>
  /\ pkgFile = NoFile
  /\ lookups = <<>>
  /\ buildNow = 0
  /\ outPath = [dir |-> "missing", writable |-> TRUE]
  /\ allFiles = <<>>
  /\ meta = [version |-> <<>>, order |-> <<>>, items |-> JObj(<<>>)]
  /\ stamp = NoStamp
  /\ ordered = <<>>
  /\ entries = <<>>
  /\ cardsHtml = <<>>
  /\ output = NoOutput
  /\ prevRun = <<>>

\* neither the build script nor the autofill bookmarklet is running
BuildIdle == ScriptIdle /\ FormIdle

InitEncoder ==
  /\ pc = "toBookmarkletURL"
  /\ BuildIdle
  /\ encIn \in EncInputs
  /\ encOut = NoCall

CallToBookmarkletURL ==
  /\ pc = "toBookmarkletURL"
  /\ encOut' = toBookmarkletURL(JStr(Source(encIn)), encIn.wrap)
  /\ pc' = "returned"
  /\ UNCHANGED <<inputs, allFiles, meta, stamp, ordered, entries, cardsHtml, output,
                 encIn, prevRun, form>>

SpecEncoder == InitEncoder /\ [][CallToBookmarkletURL]_vars

-----------------------------------------------------------------------------
(* A call of getLastChangeISO on bounded answers of git and of the file    *)
(* system                                                                  *)

MaxInstant == 2

Instants == 0..MaxInstant
Zones == {0, 1}

\* what git log prints, and FALSE for ok when the call throws
GitAnswers ==
  { [ok |-> FALSE, output |-> EmptyText],
    [ok |-> TRUE, output |-> EmptyText],
    [ok |-> TRUE, output |-> JunkText] } \cup
  { [ok |-> TRUE, output |-> IsoText(t, z)] : t \in Instants, z \in Zones }

\* what statSync gives: it throws, or the modification time is no valid date, or it
\* is an instant
StatAnswers ==
  { [ok |-> FALSE, mtime |-> <<>>], [ok |-> TRUE, mtime |-> <<>>] } \cup
  { [ok |-> TRUE, mtime |-> <<t>>] : t \in Instants }

Lookups == { [git |-> g, stat |-> s] : g \in GitAnswers, s \in StatAnswers }

InitLastChange ==
  /\ pc = "getLastChangeISO"
  /\ BuildIdle
  /\ \E l \in Lookups, n \in Instants : encIn = [lookup |-> l, now |-> n]
  /\ encOut = NoCall

CallGetLastChangeISO ==
  /\ pc = "getLastChangeISO"
  /\ encOut' = getLastChangeISO(encIn.lookup, encIn.now)
  /\ pc' = "gotLastChange"
  /\ UNCHANGED <<inputs, allFiles, meta, stamp, ordered, entries, cardsHtml, output,
                 encIn, prevRun, form>>

SpecLastChange == InitLastChange /\ [][CallGetLastChangeISO]_vars

-----------------------------------------------------------------------------
(* Runs over the times of two scripts and of the metadata file             *)

\* the last commit of the file was at instant t, written with a zone offset
Committed(t) ==
  [git |-> [ok |-> TRUE, output |-> IsoText(t, 1)], stat |-> [ok |-> TRUE, mtime |-> <<0>>]]

\* neither git nor statSync answers
NoAnswer == [git |-> [ok |-> FALSE, output |-> EmptyText], stat |-> [ok |-> FALSE, mtime |-> <<>>]]

FileTimes == {Committed(t) : t \in Instants} \cup {NoAnswer}

\* a metadata file that configures a.js and says nothing of b.js
StampMetas ==
  { NoFile,
    [kind |-> "file", text |-> <<>>],
    [kind |-> "file",
     text |-> DocText(<<>>, ObjectText(<< Member(fA, ObjectText(<<
                              Member(sName, Quote(<<"n">>)) >>)) >>))] }

InitStamps ==
  /\ NotStarted
  /\ srcDir = DirOf(<<fA, fB>>)
  /\ metaFile \in StampMetas
  /\ fileText = ScriptText
  /\ pkgFile = NoFile
  /\ \E ta \in FileTimes, tb \in FileTimes, tm \in FileTimes :
       lookups = [f \in Paths |-> IF f = fA THEN ta ELSE IF f = fB THEN tb
                                  ELSE IF f = sMetaJson THEN tm ELSE Untracked(0)]
  /\ buildNow = 1
  /\ outPath = [dir |-> "missing", writable |-> TRUE]

SpecStamps == InitStamps /\ [][Next]_vars

\* the build script is run once more over the same files, the same metadata and the
\* same answers of git and statSync, at the same instant or at a later one; dist
\* is there by now, and what the earlier run wrote is kept for comparison
RunAgain ==
  /\ pc = "done"
  /\ prevRun = <<>>
  /\ FormIdle
  /\ prevRun' = <<[doc |-> output.doc[1], now |-> buildNow]>>
  /\ buildNow' \in {buildNow, buildNow + 1}
  /\ outPath' = [outPath EXCEPT !.dir = "exists"]
  /\ pc' = "ensureDir"
  /\ allFiles' = <<>>
  /\ meta' = [version |-> <<>>, order |-> <<>>, items |-> JObj(<<>>)]
  /\ stamp' = NoStamp
  /\ ordered' = <<>>
  /\ entries' = <<>>
  /\ cardsHtml' = <<>>
  /\ output' = NoOutput
  /\ UNCHANGED <<srcDir, metaFile, fileText, pkgFile, lookups, enc, form>>

NextTwice ==
  \/ Next
  \/ RunAgain

SpecTwice == InitStamps /\ [][NextTwice]_vars

-----------------------------------------------------------------------------
(* Runs over alpha.js and beta.js                                          *)

fAlpha == <<"a", "l", "p", "h", "a", ".", "j", "s">>
fBeta == <<"b", "e", "t", "a", ".", "j", "s">>
sAlphaSource == <<"c", "o", "n", "s", "o", "l", "e", ".", "l", "o", "g", "(", "1", ")">>
sBetaSource ==
  <<"(", "f", "u", "n", "c", "t", "i", "o", "n", "(", ")", "{", "c", "o", "n", "s", "o", "l", "e", ".", "l", "o", "g", "(", "2", ")", ";", "}", ")", "(", ")", ";">>
sBetaTool == <<"B", "e", "t", "a", " ", "t", "o", "o", "l">>

\* { "order": ["beta.js"], "items": {"beta.js": {"desc": "Beta tool", "wrap": true}} }
ScenarioMeta ==
  DocText(<<JStr(fBeta)>>,
          ObjectText(<< Member(fBeta, ObjectText(<<
              Member(sDesc, Quote(sBetaTool)),
              Member(sWrap, sTrue) >>)) >>))

ScenarioPaths == {fAlpha, fBeta, sMetaJson}

\* the two files in either sequence of readdirSync, the metadata text as it is,
\* with a BOM and CRLF line ends, or with comments, and any times of the files
InitScenario ==
  /\ NotStarted
  /\ srcDir \in {DirOf(<<fAlpha, fBeta>>), DirOf(<<fBeta, fAlpha>>)}
  /\ \E text \in {ScenarioMeta, WithBomCrlf(ScenarioMeta), WithComments(ScenarioMeta)} :
       metaFile = [kind |-> "file", text |-> text]
  /\ fileText = [f \in {fAlpha, fBeta} |-> IF f = fAlpha THEN sAlphaSource ELSE sBetaSource]
  /\ pkgFile = NoFile
  /\ lookups \in [ScenarioPaths -> FileTimes]
  /\ buildNow = 1
  /\ outPath = [dir |-> "missing", writable |-> TRUE]

SpecScenario == InitScenario /\ [][Next]_vars

-----------------------------------------------------------------------------
(* Calls of toBookmarkletURL with any JavaScript value as source           *)

\* values that are no string: null, undefined, a number, an object
NonTextSources == {JNull, Undefined, JNum(5), JObj(<<>>)}

sJavaScriptMixed == <<"J", "A", "v", "A", "s", "c", "r", "i", "p", "t", ":">>

\* nothing, the prefix as such, in mixed case between white space, and after a BOM
SourcePrefixes ==
  { <<>>,
    sJavascriptColon,
    <<" ", LF>> \o sJavaScriptMixed \o <<" ">>,
    <<BOM, TAB>> \o sJavascriptColon }

\* what follows the prefix: short bodies, a wrapper, a second prefix, white space
SourceRests ==
  Bodies \cup
  { sJavascriptColon \o <<"a">>,
    <<" ">> \o sJavaScriptMixed,
    sWrapPlain \o <<"a">> \o sWrapEnd,
    <<BOM, "a", " ">>,
    <<"j", "a", "v", "a">> }

SourceInputs ==
  { [source |-> s, prefix |-> <<>>, rest |-> <<>>, wrap |-> w] :
      s \in NonTextSources, w \in BOOLEAN } \cup
  { [source |-> JStr(p \o r), prefix |-> p, rest |-> r, wrap |-> w] :
      p \in SourcePrefixes, r \in SourceRests, w \in BOOLEAN }

InitSource ==
  /\ pc = "callSource"
  /\ BuildIdle
  /\ encIn \in SourceInputs
  /\ encOut = NoCall

CallWithSource ==
  /\ pc = "callSource"
  /\ encOut' = toBookmarkletURL(encIn.source, encIn.wrap)
  /\ pc' = "sourceReturned"
  /\ UNCHANGED <<inputs, allFiles, meta, stamp, ordered, entries, cardsHtml, output,
                 encIn, prevRun, form>>

SpecSource == InitSource /\ [][CallWithSource]_vars

-----------------------------------------------------------------------------
(* Runs over metadata documents of any shape                               *)

\* JSON texts of values of every kind
OrderTexts ==
  { ArrayText(<<JStr(fB)>>), Quote(fB), <<"5">>, sNull,
    ObjectText(<<Member(fB, sTrue)>>) }

ItemsTexts ==
  { ObjectText(<< Member(fA, ObjectText(<<Member(sName, Quote(<<"n">>))>>)) >>),
    ArrayText(<<JStr(fA)>>), ArrayText(<<>>), Quote(fA), <<"5">>, sNull, sFalse }

\* documents that are no object at all, and objects whose order and items are of
\* every kind
ShapeTexts ==
  { sNull, <<"5">>, Quote(sItems), ArrayText(<<JStr(sOrder)>>), sTrue, ObjectText(<<>>) } \cup
  { ObjectText(<<Member(sOrder, o), Member(sItems, it)>>) :
      o \in OrderTexts, it \in ItemsTexts }

InitShapes ==
  /\ NotStarted
  /\ srcDir = DirOf(<<fA, fB>>)
  /\ \E text \in ShapeTexts : metaFile = [kind |-> "file", text |-> text]
  /\ fileText = ScriptText
  /\ PlainSurroundings

SpecShapes == InitShapes /\ [][Next]_vars

-----------------------------------------------------------------------------
(* Calls of stripJsonComments                                              *)

MaxSegs == 3
MaxText == 4

\* pieces of JSON-like text and what is to be left of each: plain text and string
\* literals stay, a line comment leaves its newline, a block comment leaves nothing
PlainSegs == { [text |-> s, keep |-> s] : s \in { <<"a", "\\">>, <<"*", LF>> } }

StringSegs ==
  { [text |-> <<"\"">> \o b \o <<"\"">>, keep |-> <<"\"">> \o b \o <<"\"">>] :
      b \in { <<"/", "/">>, <<"/", "*", "a", "*", "/">>, <<"\\", "\"">>, <<"\\", "\\">> } }

LineSegs ==
  { [text |-> <<"/", "/">> \o b \o <<LF>>, keep |-> <<LF>>] :
      b \in { <<"\"">>, <<"/", "*">> } }

BlockSegs ==
  { [text |-> <<"/", "*">> \o b \o <<"*", "/">>, keep |-> <<>>] :
      b \in { <<"\"">>, <<"/", "/", LF>>, <<"*">> } }

Segs == PlainSegs \cup StringSegs \cup LineSegs \cup BlockSegs

StripChars == {"/", "*", "\"", "\\", LF, "a"}

\* texts built from pieces, and every text of up to MaxText characters
StripInputs ==
  { [text |-> Flatten([i \in 1..Len(ss) |-> ss[i].text]),
     keep |-> Flatten([i \in 1..Len(ss) |-> ss[i].keep]),
     built |-> TRUE] : ss \in SeqsUpTo(Segs, MaxSegs) } \cup
  { [text |-> s, keep |-> <<>>, built |-> FALSE] : s \in SeqsUpTo(StripChars, MaxText) }

InitStrip ==
  /\ pc = "stripJsonComments"
  /\ BuildIdle
  /\ encIn \in StripInputs
  /\ encOut = NoCall

CallStripJsonComments ==
  /\ pc = "stripJsonComments"
  /\ encOut' = stripJsonComments(encIn.text)
  /\ pc' = "stripped"
  /\ UNCHANGED <<inputs, allFiles, meta, stamp, ordered, entries, cardsHtml, output,
                 encIn, prevRun, form>>

SpecStrip == InitStrip /\ [][CallStripJsonComments]_vars

-----------------------------------------------------------------------------
(* Runs over one metadata document written with other line ends and a BOM  *)

\* the document as written, and with comments
BaseTexts(o, it) == { DocText(o, it), WithComments(DocText(o, it)) }

\* the same text with CR LF or CR for every LF, each with and without a BOM
LineEndVariants(text) ==
  { pre \o body : pre \in {<<>>, <<BOM>>},
                  body \in {text, ReplaceChar(text, LF, <<CR, LF>>),
                            ReplaceChar(text, LF, <<CR>>)} }

InitLineEnds ==
  /\ NotStarted
  /\ srcDir = DirOf(<<fA, fB>>)
  /\ \E o \in MetaOrders, it \in MetaItems :
       \E base \in BaseTexts(o, it) :
         \E text \in LineEndVariants(base) : metaFile = [kind |-> "file", text |-> text]
  /\ fileText = ScriptText
  /\ PlainSurroundings

SpecLineEnds == InitLineEnds /\ [][Next]_vars

-----------------------------------------------------------------------------
(* Runs over any value as the configuration of a file                      *)

\* JSON texts stored under a.js in items: values that are no object, and objects
\* whose fields are of the wrong kind
ConfigTexts ==
  { sNull, <<"5">>, <<"0">>, Quote(<<"x">>), Quote(<<>>), sTrue, sFalse,
    ArrayText(<<>>), ArrayText(<<JStr(sName)>>), ObjectText(<<>>),
    ObjectText(<< Member(sName, <<"5">>), Member(sDesc, sNull),
                  Member(sBookmarkName, ArrayText(<<>>)), Member(sWrap, Quote(sFalse)) >>),
    ObjectText(<< Member(sName, ObjectText(<<>>)), Member(sDesc, sTrue),
                  Member(sWrap, sFalse) >>),
    ObjectText(<< Member(sName, Quote(<<"n">>)), Member(sWrap, <<"0">>) >>),
    ObjectText(<< Member(sWrap, sFalse) >>),
    ObjectText(<< Member(sWrap, sNull) >>),
    ObjectText(<< Member(sWrap, sTrue) >>) }

InitConfigs ==
  /\ NotStarted
  /\ srcDir = DirOf(<<fA, fB>>)
  /\ \E items \in {ObjectText(<<>>)} \cup
                  {ObjectText(<<Member(fA, c)>>) : c \in ConfigTexts} :
       metaFile = [kind |-> "file", text |-> DocText(<<>>, items)]
  /\ fileText = ScriptText
  /\ PlainSurroundings

SpecConfigs == InitConfigs /\ [][Next]_vars

-----------------------------------------------------------------------------
(* Calls of latestTimestampISO, next to the runs over file times           *)

MaxCands == 3

\* a candidate: a date text, text that is no date, the empty string, null
Candidates == {IsoText(t, z) : t \in Instants, z \in Zones} \cup {JunkText, EmptyText, NullText}

InitLatest ==
  /\ pc = "latestTimestampISO"
  /\ BuildIdle
  /\ encIn \in SeqsUpTo(Candidates, MaxCands)
  /\ encOut = NoCall

CallLatestTimestampISO ==
  /\ pc = "latestTimestampISO"
  /\ encOut' = latestTimestampISO(encIn)
  /\ pc' = "gotLatest"
  /\ UNCHANGED <<inputs, allFiles, meta, stamp, ordered, entries, cardsHtml, output,
                 encIn, prevRun, form>>

NextTimes ==
  \/ CallLatestTimestampISO
  \/ Next

InitTimes == InitLatest \/ InitStamps

SpecTimes == InitTimes /\ [][NextTimes]_vars

-----------------------------------------------------------------------------
(* The output order                                                        *)

Range(seq) == {seq[i] : i \in 1..Len(seq)}

AfterOrdered == pc \in {"entries", "cardsHtml", "writeFile", "done"}
EntriesBuilt == pc \in {"cardsHtml", "writeFile", "done"}
Rendered == pc \in {"writeFile", "done"}

\* the order list names file f
OrderNames(f) == \E i \in 1..Len(meta.order) : meta.order[i] = JStr(f)

\* the file names of the order list that are among the found files, as listed
RECURSIVE ExistingInOrder(_, _)
ExistingInOrder(order, found) ==
  IF order = <<>> THEN <<>>
  ELSE (IF Head(order).t = "str" /\ Head(order).v \in found
        THEN <<Head(order).v>> ELSE <<>>) \o ExistingInOrder(Tail(order), found)

Occurrences(seq, x) == Cardinality({i \in 1..Len(seq) : seq[i] = x})

\* C1: the output sequence is first the file names of the order list that are among
\* the found files, in the sequence the list gives them, then every found file the
\* list does not name; a name of the list that is not on disk gives no entry and no
\* error: one entry is built for each name of the sequence, in that sequence.
C1_OrderThenRest ==
  AfterOrdered =>
    \A named \in {ExistingInOrder(meta.order, Range(allFiles))} :
      /\ Len(ordered) >= Len(named)
      /\ SubSeq(ordered, 1, Len(named)) = named
      /\ \A rest \in {SubSeq(ordered, Len(named) + 1, Len(ordered))} :
           /\ \A f \in Range(allFiles) : ~OrderNames(f) => Occurrences(rest, f) = 1
           /\ \A f \in Range(rest) : f \in Range(allFiles) /\ ~OrderNames(f)
      /\ EntriesBuilt =>
           /\ Len(entries) = Len(ordered)
           /\ \A i \in 1..Len(entries) : entries[i].name = FallbackName(ordered[i])

\* order [b.js, a.js, z.js is absent] with the files a.js, b.js, c.js: b.js, a.js, c.js
C1_Witness ==
  /\ pc = "done"
  /\ allFiles = <<fA, fB, fC>>
  /\ meta.order = <<JStr(fB), JStr(fA)>>
  /\ ordered = <<fB, fA, fC>>
  /\ Len(entries) = 3

\* C2: in the computed output order no file name appears twice, and every eligible
\* file appears exactly once.
C2_NoDuplicates ==
  AfterOrdered =>
    /\ \A i, j \in 1..Len(ordered) : i # j => ordered[i] # ordered[j]
    /\ \A f \in Range(allFiles) : Occurrences(ordered, f) = 1

\* UTF-16 code units of the characters of the file names
CodeUnit(c) ==
  CASE c = "." -> 46 [] c = "_" -> 95 [] c = "a" -> 97 [] c = "b" -> 98 [] c = "c" -> 99
    [] c = "j" -> 106 [] c = "n" -> 110 [] c = "s" -> 115 [] c = "t" -> 116
    [] c = "x" -> 120 [] c = "z" -> 122

\* a stands before b in the comparison by code units
Before(a, b) ==
  \E k \in 1..(Len(a) + 1) :
    /\ \A m \in 1..(k - 1) : m <= Len(b) /\ a[m] = b[m]
    /\ \/ k = Len(a) + 1 /\ Len(b) >= k
       \/ k <= Len(a) /\ k <= Len(b) /\ CodeUnit(a[k]) < CodeUnit(b[k])

\* C3: the files the order list does not name stand in the output in alphabetical
\* order, whatever sequence the directory listing returned them in.
C3_RestAlphabetical ==
  AfterOrdered =>
    \A i, j \in 1..Len(ordered) :
      (i < j /\ ~OrderNames(ordered[i]) /\ ~OrderNames(ordered[j]))
        => Before(ordered[i], ordered[j])

-----------------------------------------------------------------------------
(* Reading a URI back: percent-decoding                                    *)

\* the character the escape %hl stands for
HexChar(h, l) ==
  CASE h = "2" /\ l = "0" -> " "
    [] h = "2" /\ l = "2" -> "\""
    [] h = "2" /\ l = "3" -> "#"
    [] h = "2" /\ l = "5" -> "%"
    [] h = "3" /\ l = "C" -> "<"
    [] h = "3" /\ l = "E" -> ">"
    [] h = "5" /\ l = "C" -> "\\"
    [] h = "7" /\ l = "B" -> "{"
    [] h = "7" /\ l = "D" -> "}"
    [] h = "0" /\ l = "9" -> TAB
    [] h = "0" /\ l = "A" -> LF
    [] h = "0" /\ l = "D" -> CR
    [] h = "E" /\ l = "F" -> BOM
    [] OTHER -> "?"

\* every %XX of the URI read back as the character it encodes (the three escapes
\* %EF%BB%BF of a BOM as one character)
PercentDecode(str) ==
  The({Flatten([i \in 1..Len(s) |->
                  IF s[i] = "%"
                  THEN IF At(s, i + 1) = "B" THEN <<>>
                       ELSE <<HexChar(At(s, i + 1), At(s, i + 2))>>
                  ELSE IF At(s, i - 1) = "%" \/ At(s, i - 2) = "%" THEN <<>>
                  ELSE <<s[i]>>]) : s \in {str}})

Contains(s, c) == \E i \in 1..Len(s) : s[i] = c

Returned == pc = "returned"

\* the source is  [white space / javascript: prefix] (function(){BODY})(); [white space]
IsPlainIifeSource == encIn.head = sWrapPlain /\ encIn.tail = sWrapEnd

\* C4 as stated: with wrap=true, a source of the form (function(){BODY})(); decodes
\* to exactly javascript:(function(){BODY})(); with BODY as it stands in the source.
C4_RoundTripExact ==
  (Returned /\ encIn.wrap /\ IsPlainIifeSource)
    => PercentDecode(encOut) = sJavascriptColon \o sWrapPlain \o encIn.body \o sWrapEnd

\* C4 amended: with wrap=true, a source of the form (function(){BODY})(); is not
\* wrapped a second time: the URI decodes to javascript:(function(){BODY'})(); where
\* BODY' is BODY with every CRLF and lone CR replaced by LF.
C4_RoundTripNormalized ==
  (Returned /\ encIn.wrap /\ IsPlainIifeSource)
    => PercentDecode(encOut) =
         sJavascriptColon \o sWrapPlain \o NormalizeNewlines(encIn.body) \o sWrapEnd

C4_Witness ==
  /\ Returned /\ encIn.wrap /\ IsPlainIifeSource
  /\ JsPrefixLen(encIn.pre) > 0
  /\ encIn.body = <<"a", "}">>
  /\ encIn.post # <<>>

ShapeIndex(in) == {k \in 1..4 : in.head = ShapeHeads[k] /\ in.tail \in ShapeTails}

MatchesNoPattern(s) == FirstPattern(s) = 0

C6_NoWrapPassthrough ==
  (Returned /\ ~encIn.wrap) =>
    \A decoded \in {PercentDecode(encOut)} :
      /\ decoded = sJavascriptColon \o CleanSource(Source(encIn))
      /\ (encIn.pre = <<>> /\ encIn.post = <<>> /\ ~Contains(encIn.body, CR)
          /\ encIn.head # <<>> /\ encIn.tail # <<>>)
           => decoded = sJavascriptColon \o Source(encIn)

C6_Witness ==
  /\ Returned /\ ~encIn.wrap
  /\ ShapeIndex(encIn) = {2}
  /\ encIn.pre = <<>> /\ encIn.post = <<>>
  /\ encIn.body = <<"a">>

RawForbidden == {"#", " ", "\"", TAB, LF, CR}

\* position in the URI of the text that encodes character i of the final code
UriPos(code, i) ==
  Len(sJavascriptColon)
    + Len(ReplaceChar(encodeURI(SubSeq(code, 1, i - 1)), "#", <<"%","2","3">>)) + 1

\* C7: the returned URI starts with javascript: and holds no raw #, space, double
\* quote or control character; every # of the final code stands as %23 at its place.
C7_UriSafe ==
  Returned =>
    /\ SubSeq(encOut, 1, Len(sJavascriptColon)) = sJavascriptColon
    /\ \A i \in 1..Len(encOut) : encOut[i] \notin RawForbidden
    /\ \A code \in {FinalCode(JStr(Source(encIn)), encIn.wrap)} :
         \A i \in 1..Len(code) :
           code[i] = "#" => MatchAt(encOut, UriPos(code, i), <<"%","2","3">>)

C7_Witness ==
  /\ Returned
  /\ encIn.body = <<"#", "\"">>
  /\ encIn.pre = <<" ", LF>>
  /\ encIn.head = sWrapAsync
  /\ ~encIn.wrap

-----------------------------------------------------------------------------
(* Metadata that cannot be used                                            *)

\* the metadata file does not exist, cannot be read, is empty after the cleanup or
\* is no JSON after the cleanup
MetaUnusable ==
  \/ metaFile.kind # "file"
  \/ metaFile.text \in EmptyTexts \cup BrokenMetaTexts

\* the entry of a file that has no configuration, its time left aside
DefaultEntry(file) ==
  [name |-> FallbackName(file),
   desc |-> <<>>,
   href |-> toBookmarkletURL(JStr(fileText[file]), TRUE),
   mtime |-> NullText,
   bookmarkName |-> FallbackName(file),
   hasBookmarkName |-> FALSE]

\* C8: when the metadata file does not exist, is empty after cleanup or does not
\* parse after the cleanup, readMeta returns the defaults (empty order, empty items),
\* the build goes on, and every entry is built with the default configuration.
C8_DefaultsOnBadMeta ==
  MetaUnusable =>
    /\ pc \notin {"ensureDir", "listJs", "readMeta"} =>
         /\ meta.order = <<>>
         /\ meta.items = JObj(<<>>)
    /\ AfterOrdered => ordered = allFiles
    /\ EntriesBuilt => Len(entries) = Len(allFiles)
    /\ \A i \in 1..Len(entries) :
         [entries[i] EXCEPT !.mtime = NullText] = DefaultEntry(ordered[i])

C8_Witness ==
  /\ pc = "done"
  /\ metaFile.kind = "file"
  /\ metaFile.text \in BrokenMetaTexts
  /\ Len(entries) = 3

-----------------------------------------------------------------------------
(* The page as an HTML parser reads it                                     *)

Entities ==
  { [char |-> "&", text |-> eAmp], [char |-> "<", text |-> eLt],
    [char |-> ">", text |-> eGt], [char |-> "\"", text |-> eQuot],
    [char |-> "'", text |-> eApos] }

EntityAt(s, i) == {e \in Entities : MatchAt(s, i, e.text)}

\* position i of s lies inside an entity that starts before it
InsideEntity(s, i) ==
  \E j \in 1..(i - 1) : \E e \in EntityAt(s, j) : i < j + Len(e.text)

\* character data with the entities read back as the characters they stand for
HtmlDecode(str) ==
  The({Flatten([i \in 1..Len(s) |->
                  IF EntityAt(s, i) # {} THEN <<(CHOOSE e \in EntityAt(s, i) : TRUE).char>>
                  ELSE IF InsideEntity(s, i) THEN <<>>
                  ELSE <<s[i]>>]) : s \in {str}})

\* the value of a double-quoted attribute whose text starts with text: it ends at
\* the first double quote, and its entities are decoded
AttrValue(text) ==
  The({HtmlDecode(SubSeq(s, 1, Least({i \in 1..Len(s) : s[i] = "\""}, Len(s) + 1) - 1)) :
         s \in {text}})

\* no raw < > " ' and every & starts one of the five entities
MarkupFree(s) ==
  \A i \in 1..Len(s) :
    /\ s[i] \notin {"<", ">", "\"", "'"}
    /\ s[i] = "&" => EntityAt(s, i) # {}

\* a text hole of a card holds the text, escaped once
Holds(hole, text) == MarkupFree(hole) /\ HtmlDecode(hole) = text

\* C9: every name, bookmark label and description placed in a card went through
\* escapeHtml: the text in the page has no raw < > " or ', every & in it starts one
\* of the five entities, and read back by an HTML parser it is the text of the entry
\* (nothing is escaped twice); a name <script> stands in the page as &lt;script&gt;.
C9_CardTextsEscaped ==
  Rendered =>
    /\ Len(cardsHtml) = Len(entries)
    /\ \A i \in 1..Len(cardsHtml) :
         \A c \in {cardsHtml[i]}, e \in {entries[i]} :
           /\ Holds(c.dataId, e.name)
           /\ Holds(c.name, e.name)
           /\ Holds(c.dataBookmark, e.bookmarkName)
           /\ Holds(c.label, e.bookmarkName)
           /\ c.bookmarkLine.present /\ Holds(c.bookmarkLine.text, e.bookmarkName)
           /\ c.details.present = (e.desc # <<>>)
           /\ Holds(c.details.text, e.desc)
           /\ e.name = sScriptTag => c.name = eLt \o SubSeq(sScriptTag, 2, 7) \o eGt

C9_Witness ==
  /\ pc = "done"
  /\ Len(entries) = 1
  /\ entries[1].name = sScriptTag
  /\ cardsHtml[1].dataId = eLt \o SubSeq(sScriptTag, 2, 7) \o eGt

\* C10: for every card, the value of the href attribute as an HTML parser reads it
\* (double-quoted attribute, entities decoded) is the entry's bookmarklet URI.
C10_HrefReadBack ==
  Rendered =>
    \A i \in 1..Len(cardsHtml) : AttrValue(cardsHtml[i].href) = entries[i].href

-----------------------------------------------------------------------------
(* Entries of a run                                                        *)

\* the name the configuration gives for the file, trimmed; empty when it gives none
ConfiguredName(file) ==
  The({IF cfg.t = "obj" /\ Get(cfg, sName).t = "str" THEN Trim(Get(cfg, sName).v)
       ELSE <<>> : cfg \in {Get(meta.items, file)}})

\* C11: the resolved name of every entry is non-empty: it is the configured name
\* trimmed when that is a non-blank string, otherwise the file name with its .js
\* extension stripped.
C11_NameNonEmpty ==
  \A i \in 1..Len(entries) :
    /\ entries[i].name # <<>>
    /\ entries[i].name = IF ConfiguredName(ordered[i]) # <<>>
                         THEN ConfiguredName(ordered[i])
                         ELSE FallbackName(ordered[i])

-----------------------------------------------------------------------------
(* Timestamps                                                              *)

\* the version-control lookup succeeded and printed a date
CommitKnown(lookup) == lookup.git.ok /\ lookup.git.output.kind = "iso"

\* statSync answered with a valid modification time
StatKnown(lookup) == lookup.stat.ok /\ lookup.stat.mtime # <<>>

\* C12: getLastChangeISO never raises and follows the fallback chain: the commit
\* time when the lookup succeeds with a date, otherwise the modification time of the
\* file, otherwise the current instant; the result is always a valid ISO instant.
C12_FallbackChain ==
  /\ pc = "getLastChangeISO" => ENABLED CallGetLastChangeISO
  /\ pc = "gotLastChange" =>
       /\ encOut.kind = "iso"
       /\ encOut.zone = 0
       /\ encOut.t = IF CommitKnown(encIn.lookup) THEN encIn.lookup.git.output.t
                     ELSE IF StatKnown(encIn.lookup) THEN encIn.lookup.stat.mtime[1]
                     ELSE encIn.now

\* git printed text that is no date and statSync threw: the current instant
C12_Witness ==
  /\ pc = "gotLastChange"
  /\ encIn.lookup.git = [ok |-> TRUE, output |-> JunkText]
  /\ ~encIn.lookup.stat.ok
  /\ encIn.now = 1
  /\ encOut = IsoText(1, 0)

\* the metadata file exists and holds a configuration for the file
Contributed(file) == metaFile.kind # "none" /\ Truthy(Get(meta.items, file))

Later(a, b) == IF a >= b THEN a ELSE b

\* C13: the last-change instant of an entry is the later of the script's own time
\* and the time of the metadata file when that file exists and holds configuration
\* for the entry; otherwise it is the script's own time alone.
C13_CombinedWhenContributed ==
  \A i \in 1..Len(entries) :
    \A own \in {getLastChangeISO(lookups[ordered[i]], buildNow)} :
      /\ entries[i].mtime.kind = "iso"
      /\ entries[i].mtime.t = IF Contributed(ordered[i])
                              THEN Later(own.t, stamp.metaLastChange.t)
                              ELSE own.t

\* C14: the output file is written at most once, and only when the metadata has been
\* read and every ordered file has its entry, encoded and timestamped, and its card;
\* a run that failed has written nothing and printed no summary.
C14_NoPartialOutput ==
  /\ output.writes <= 1
  /\ output.writes = 0 => output = NoOutput
  /\ pc = "failed" => output = NoOutput
  /\ output.writes = 1 =>
       /\ pc = "done"
       /\ meta = readMeta(metaFile)
       /\ Len(entries) = Len(ordered)
       /\ \A i \in 1..Len(entries) :
            /\ StartsWith(entries[i].href, sJavascriptColon)
            /\ entries[i].mtime.kind = "iso"
       /\ output.doc = <<Html([i \in 1..Len(entries) |-> CardOf(entries[i])], stamp)>>
       /\ output.summary = <<Len(entries)>>

\* a run that failed after it had built an entry
C14_Witness == pc = "failed" /\ Len(entries) >= 1 /\ output = NoOutput

\* the source directory is there and cannot be listed
SourceUnreadable == srcDir.exists /\ ~srcDir.readable

\* dist cannot be made, or index.html cannot be written in it
OutputUnwritable == outPath.dir = "blocked" \/ ~outPath.writable

\* C15: a run whose source directory cannot be read, or whose output path cannot be
\* written, prints no success summary and does not end well; and a run fails for
\* no other reason.
C15_OnlyFatalConditions ==
  /\ (SourceUnreadable \/ OutputUnwritable) => pc # "done" /\ output.summary = <<>>
  /\ pc = "failed" => SourceUnreadable \/ OutputUnwritable

sAlpha == <<"a", "l", "p", "h", "a">>
sBeta == <<"b", "e", "t", "a">>

\* javascript:(function()%7Bconsole.log(1)%7D)();
sAlphaHref ==
  <<"j", "a", "v", "a", "s", "c", "r", "i", "p", "t", ":", "(", "f", "u", "n", "c", "t", "i", "o", "n", "(", ")", "%", "7", "B", "c", "o", "n", "s", "o", "l", "e", ".", "l", "o", "g", "(", "1", ")", "%", "7", "D", ")", "(", ")", ";">>

\* javascript:(function()%7Bconsole.log(2);%7D)();
sBetaHref ==
  <<"j", "a", "v", "a", "s", "c", "r", "i", "p", "t", ":", "(", "f", "u", "n", "c", "t", "i", "o", "n", "(", ")", "%", "7", "B", "c", "o", "n", "s", "o", "l", "e", ".", "l", "o", "g", "(", "2", ")", ";", "%", "7", "D", ")", "(", ")", ";">>

\* C17: with alpha.js, beta.js and a metadata document that orders beta.js first and
\* gives it the description "Beta tool" and wrap true, the run succeeds and the page
\* lists beta first, named "beta", with the description block and the encoded href
\* of its own wrapper, then alpha, named "alpha", wrapped once and with no block.
C17_AlphaBetaScenario ==
  /\ pc # "failed"
  /\ pc = "done" =>
       \A cards \in {output.doc[1].cards} :
         /\ Len(cards) = 2
         /\ cards[1].name = sBeta
         /\ cards[1].details = [present |-> TRUE, text |-> sBetaTool]
         /\ cards[1].href = sBetaHref
         /\ cards[2].name = sAlpha
         /\ cards[2].details.present = FALSE
         /\ cards[2].href = sAlphaHref

\* the page is written from a listing that gives alpha.js first
C17_Witness == pc = "done" /\ allFiles = <<fAlpha, fBeta>> /\ Len(output.doc[1].cards) = 2

\* what the metadata gives as description of the file
RawDesc(file) == Get(ConfigOf(meta.items, file), sDesc)

Blank(s) == \A k \in 1..Len(s) : IsSpace(s[k])

\* C18: a card has a "More info" block exactly when the description of its entry is
\* not empty, and the block then holds the escaped description; a description that
\* is missing, is no string or is blank gives no block.
C18_DetailsIffDescription ==
  Rendered =>
    \A i \in 1..Len(cardsHtml) :
      \A c \in {cardsHtml[i]}, e \in {entries[i]}, raw \in {RawDesc(ordered[i])} :
        /\ c.details.present = (e.desc # <<>>)
        /\ c.details.present => c.details.text = escapeHtml(e.desc)
        /\ IF raw.t = "str" /\ ~Blank(raw.v)
           THEN c.details.present /\ Holds(c.details.text, Trim(raw.v))
           ELSE ~c.details.present

\* a card made from a description of two spaces
C18_Witness ==
  /\ pc = "done"
  /\ Len(cardsHtml) = 1
  /\ RawDesc(fA) = JStr(<<" ", " ">>)
  /\ ~cardsHtml[1].details.present

\* the name the page shows for a file
ShownName(file) ==
  IF ConfiguredName(file) # <<>> THEN ConfiguredName(file) ELSE FallbackName(file)

Eligible(entry) ==
  entry.kind = "file" /\ EndsWith(entry.name, sDotJs) /\ ~StartsWith(entry.name, <<"_">>)

\* C20: once the source directory is listed, allFiles holds the name of a directory
\* entry exactly when the entry is a regular file whose name ends in .js and does
\* not begin with _.
C20_CollectedIffEligible ==
  (pc \notin {"ensureDir", "listJs"} /\ ~SourceUnreadable /\ outPath.dir # "blocked") =>
     \A k \in 1..Len(srcDir.entries) :
       InSeq(allFiles, srcDir.entries[k].name) <=> Eligible(srcDir.entries[k])

\* javascript:(function()%7B%7D)();
sEmptyWrapped ==
  <<"j", "a", "v", "a", "s", "c", "r", "i", "p", "t", ":", "(", "f", "u", "n", "c", "t", "i", "o", "n", "(", ")", "%", "7", "B", "%", "7", "D", ")", "(", ")", ";">>

\* C21: toBookmarkletURL returns for a source that is no text (null, undefined, a
\* number, an object): javascript: followed by the encoded empty wrapper when wrap
\* is on, and javascript: alone when wrap is false.
C21_NonTextSource ==
  /\ pc = "callSource" => ENABLED CallWithSource
  /\ (pc = "sourceReturned" /\ encIn.source.t # "str") =>
       encOut = IF encIn.wrap THEN sEmptyWrapped ELSE sJavascriptColon

\* a call with null and wrap false has returned
C21_Witness ==
  pc = "sourceReturned" /\ encIn.source = JNull /\ ~encIn.wrap /\ encOut = sJavascriptColon

MetaRead == pc \notin {"ensureDir", "listJs", "readMeta"}

\* C22: whatever value the metadata file parses to, the run does not stop on it;
\* order is the parsed array, or empty when the parsed order is no array; items is
\* the parsed mapping, or the empty mapping when the parsed items is no mapping.
C22_MetaShape ==
  /\ pc # "failed"
  /\ MetaRead =>
       \A parsed \in {readJsonFile(metaFile)} :
         \A o \in {Get(parsed, sOrder)}, it \in {Get(parsed, sItems)} :
           /\ meta.order = IF o.t = "arr" THEN o.v ELSE <<>>
           /\ meta.items = IF it.t = "obj" THEN it ELSE JObj(<<>>)

\* C23: of a text made of plain text, string literals, line comments and block
\* comments, stripJsonComments leaves the plain text and the string literals as
\* they are (with the // and /* and escaped quotes inside them), the newline of
\* every line comment, and nothing of the block comments.
C23_CommentsOutStringsKept ==
  (pc = "stripped" /\ encIn.built) => encOut = encIn.keep

\* a string literal that holds // and an escaped-quote literal, around a block comment
\* that holds a quote
C23_Witness ==
  /\ pc = "stripped"
  /\ encIn.text = <<"\"", "/", "/", "\"">> \o <<"/", "*", "\"", "*", "/">>
                     \o <<"\"", "\\", "\"", "\"">>
  /\ encOut = <<"\"", "/", "/", "\"">> \o <<"\"", "\\", "\"", "\"">>

RECURSIVE Embeds(_, _, _, _)
\* a from position i on is found, in sequence, in b from position j on
Embeds(a, b, i, j) ==
  IF i > Len(a) THEN TRUE
  ELSE IF j > Len(b) THEN FALSE
  ELSE IF a[i] = b[j] THEN Embeds(a, b, i + 1, j + 1)
  ELSE Embeds(a, b, i, j + 1)

RECURSIVE CommentFree(_, _, _)
\* no // and no /* from position i on outside the string literals of s; mode tells
\* whether position i is in a string, and whether it follows a backslash there
CommentFree(s, i, mode) ==
  IF i > Len(s) THEN TRUE
  ELSE IF mode = "escaped" THEN CommentFree(s, i + 1, "string")
  ELSE IF mode = "string"
       THEN CommentFree(s, i + 1, IF s[i] = "\\" THEN "escaped"
                                  ELSE IF s[i] = "\"" THEN "code" ELSE "string")
  ELSE IF s[i] = "/" /\ At(s, i + 1) \in {"/", "*"} THEN FALSE
  ELSE CommentFree(s, i + 1, IF s[i] = "\"" THEN "string" ELSE "code")

\* C30: stripJsonComments returns on every text; what it returns is the text with
\* characters left out, has no // and no /* outside string literals, and is left as
\* it is by a second call.
C30_StripTerminatesIdempotent ==
  /\ pc = "stripJsonComments" => ENABLED CallStripJsonComments
  /\ pc = "stripped" =>
       /\ Embeds(encOut, encIn.text, 1, 1)
       /\ CommentFree(encOut, 1, "code")
       /\ stripJsonComments(encOut) = encOut

\* a block comment that is never closed, with a quote in it
C30_Witness ==
  pc = "stripped" /\ encIn.text = <<"a", "/", "*", "\"">> /\ encOut = <<"a">>

\* C24: a metadata file that is a valid document written with a leading BOM, with
\* CR LF or with CR alone for its line ends loads to the order and the items of the
\* same document without BOM and with LF line ends.
C24_BomAndLineEnds ==
  MetaRead =>
    \A o \in MetaOrders, it \in MetaItems :
      \A base \in BaseTexts(o, it) :
        metaFile.text \in LineEndVariants(base) =>
          \A plain \in {readMeta([kind |-> "file", text |-> base])} :
            /\ plain.order = o
            /\ it # ObjectText(<<>>) => plain.items.v # <<>>
            /\ meta.order = plain.order
            /\ meta.items = plain.items

\* a document with comments, a BOM and CR line ends has been loaded, order and items
C24_Witness ==
  /\ pc = "done"
  /\ metaFile.text[1] = BOM
  /\ Contains(metaFile.text, CR)
  /\ ~Contains(metaFile.text, LF)
  /\ Contains(metaFile.text, "*")
  /\ Len(meta.order) = 2
  /\ meta.items.v # <<>>

\* the text begins, after optional white space, with javascript: in any letter case
StartsWithScheme(s) == MatchCI(s, SkipWs(s, 1), sJavascriptColon)

PrefixedCall == pc = "sourceReturned" /\ encIn.source.t = "str" /\ encIn.prefix # <<>>

\* C25 as stated: a source with a javascript: prefix encodes to the URI of the same
\* source without that prefix, whatever follows the prefix.
C25_PrefixRemovedSameUri ==
  PrefixedCall => encOut = toBookmarkletURL(JStr(encIn.rest), encIn.wrap)

\* C25: a source with a javascript: prefix encodes to the URI of what follows the
\* prefix when that does not begin with a javascript: prefix of its own; when it
\* does, one prefix is stripped and the second stays in the code as it is.
C25_OnePrefixStripped ==
  PrefixedCall =>
    IF ~StartsWithScheme(encIn.rest)
    THEN encOut = toBookmarkletURL(JStr(encIn.rest), encIn.wrap)
    ELSE PercentDecode(encOut) =
           sJavascriptColon \o
             (IF encIn.wrap THEN sWrapPlain \o Trim(encIn.rest) \o sWrapEnd
              ELSE Trim(encIn.rest))

\* a source with two prefixes in a row has been encoded without a wrapper
C25_Witness ==
  /\ pc = "sourceReturned"
  /\ encIn.prefix = sJavascriptColon
  /\ encIn.rest = sJavascriptColon \o <<"a">>
  /\ ~encIn.wrap
  /\ encOut = sJavascriptColon \o sJavascriptColon \o <<"a">>

\* what the metadata gives as bookmark label of the file
RawBookmarkName(file) == Get(ConfigOf(meta.items, file), sBookmarkName)

TextOr(raw, default) == IF raw.t = "str" /\ ~Blank(raw.v) THEN Trim(raw.v) ELSE default

\* C27: whatever value items holds for a file, the run does not stop on it and the
\* entry is built: name, description and label from the fields that are strings,
\* the defaults for the others, and the wrapper on unless wrap is the boolean false.
C27_AnyConfigBuilds ==
  /\ pc # "failed"
  /\ \A i \in 1..Len(entries) :
       \A e \in {entries[i]}, raw \in {Get(meta.items, ordered[i])} :
         \A wrapOn \in {~(Get(raw, sWrap).t = "bool" /\ Get(raw, sWrap) = JBool(FALSE))} :
           /\ e.name = TextOr(Get(raw, sName), FallbackName(ordered[i]))
           /\ e.desc = TextOr(Get(raw, sDesc), <<>>)
           /\ e.bookmarkName = TextOr(Get(raw, sBookmarkName), e.name)
           /\ e.hasBookmarkName = (TextOr(Get(raw, sBookmarkName), <<>>) # <<>>)
           /\ e.href = toBookmarkletURL(JStr(fileText[ordered[i]]), wrapOn)
           /\ ordered[i] = fA =>
                PercentDecode(e.href) =
                  sJavascriptColon \o
                    (IF wrapOn THEN sWrapPlain \o fileText[fA] \o sWrapEnd ELSE fileText[fA])

\* the entry of a file whose wrap is the number 0 is built with the wrapper
C27_Witness ==
  /\ pc = "done"
  /\ Get(Get(meta.items, fA), sWrap) = JNum(0)
  /\ entries[1].name = <<"n">>
  /\ StartsWith(entries[1].href, sJavascriptColon \o <<"(">>)

\* the instants of the candidates that are date texts
DatedAt(candidates) ==
  {candidates[i].t : i \in {j \in 1..Len(candidates) : candidates[j].kind = "iso"}}

\* C28: latestTimestampISO returns the latest instant among the candidates that are
\* date texts, in UTC, whatever else is among the candidates, and null exactly when
\* none is a date text; so the time of every entry is an instant, and it is not
\* earlier than the time of the script itself.
C28_LatestValidCandidate ==
  /\ pc = "latestTimestampISO" => ENABLED CallLatestTimestampISO
  /\ pc = "gotLatest" =>
       \A dated \in {DatedAt(encIn)} :
         IF dated = {} THEN encOut = NullText
         ELSE /\ encOut.kind = "iso"
              /\ encOut.zone = 0
              /\ encOut.t \in dated
              /\ \A t \in dated : t <= encOut.t
  /\ \A i \in 1..Len(entries) :
       /\ entries[i].mtime.kind = "iso"
       /\ entries[i].mtime.t >= getLastChangeISO(lookups[ordered[i]], buildNow).t

\* the latest date text is neither first nor last, among candidates that are no dates
C28_Witness ==
  /\ pc = "gotLatest"
  /\ encIn = <<IsoText(0, 0), IsoText(MaxInstant, 1), JunkText>>
  /\ encOut = IsoText(MaxInstant, 0)

-----------------------------------------------------------------------------
(* The autofill bookmarklet: one click on a booking page                    *)
(*                                                                         *)
(* The stored item is described by what the steps ask of it: whether it    *)
(* parses to data, whether each station has a non-blank raw text, whether  *)
(* each date is absent, a date, or no date, and whether each time is       *)
(* absent.  The page is described by what waitFor finds: a station input   *)
(* is absent, present without suggestions, or present with suggestions; a  *)
(* date input is absent or present; a time select is absent, present       *)
(* without a usable option, or present with one.                           *)

\* the form fields in the order of the steps
Fields == <<"start", "end", "from", "to", "heure_a", "heure_d">>

\* the messages of showToast: "Keine Daten.", "Startstation konnte nicht
\* ausgewaehlt werden.", "Rueckgabestation konnte nicht ausgewaehlt werden.",
\* "Formular ausgefuellt.", "Fehler beim Ausfuellen des Formulars."
tKeineDaten == "Keine Daten."
tStartstation == "Startstation konnte nicht ausgewaehlt werden."
tRueckgabestation == "Rueckgabestation konnte nicht ausgewaehlt werden."
tAusgefuellt == "Formular ausgefuellt."
tFehler == "Fehler beim Ausfuellen des Formulars."

\* what localStorage can hold: nothing, text that is no JSON (or null), or data
Storages ==
  { [NoData EXCEPT !.kind = k] : k \in {"none", "broken"} } \cup
  { [kind |-> "data", pickupStation |-> ps, returnStation |-> rs,
     pickupDate |-> pd, returnDate |-> rd, pickupTime |-> pt, returnTime |-> rt] :
      ps \in BOOLEAN, rs \in BOOLEAN,
      pd \in {"missing", "date", "invalid"}, rd \in {"missing", "date"},
      pt \in {"missing", "time"}, rt \in {"missing", "time"} }

\* the pages the bookmarklet can be clicked on
Pages ==
  { [start |-> s, end |-> e, from |-> f, to |-> t, heure_a |-> a, heure_d |-> d] :
      s \in {"absent", "silent", "present"}, e \in {"absent", "silent", "present"},
      f \in {"absent", "present"}, t \in {"absent", "present"},
      a \in {"absent", "present"}, d \in {"absent", "empty", "present"} }

InitAutofill ==
  /\ pc = "parseStorage"
  /\ ScriptIdle
  /\ encIn = NoCall
  /\ encOut = NoCall
  /\ storage \in Storages
  /\ page \in Pages
  /\ filled = <<>>
  /\ toasts = <<>>

\* showToast(message) as the last statement of the run
ShowToastAndEnd(message) ==
  /\ toasts' = Append(toasts, message)
  /\ pc' = "ended"

\* const data = parseStorage(); if (!data) { showToast("Keine Daten."); return; }
ParseStorage ==
  /\ pc = "parseStorage"
  /\ IF storage.kind # "data"
       THEN ShowToastAndEnd(tKeineDaten)
       ELSE pc' = "pickupStation" /\ UNCHANGED toasts
  /\ UNCHANGED <<inputs, allFiles, meta, stamp, ordered, entries, cardsHtml, output,
                 enc, prevRun, storage, page, filled>>

\* await fillAutocomplete({inputSelector, station}) and the test of its result:
\* it throws when the input is absent, returns false without typing when the
\* station has no raw text, types and returns false when no suggestion shows,
\* and types, clicks a suggestion and returns true otherwise
FillAutocomplete(field, hasStation, message, next) ==
  IF page[field] = "absent"
    THEN ShowToastAndEnd(tFehler) /\ UNCHANGED filled
  ELSE IF ~hasStation
    THEN ShowToastAndEnd(message) /\ UNCHANGED filled
  ELSE IF page[field] = "silent"
    THEN ShowToastAndEnd(message) /\ filled' = Append(filled, field)
  ELSE /\ filled' = Append(filled, field)
       /\ pc' = next
       /\ UNCHANGED toasts

FillPickupStation ==
  /\ pc = "pickupStation"
  /\ FillAutocomplete("start", storage.pickupStation, tStartstation, "returnStation")
  /\ UNCHANGED <<inputs, allFiles, meta, stamp, ordered, entries, cardsHtml, output,
                 enc, prevRun, storage, page>>

\* a run that goes on to the dates when the return station was not selected
FillReturnStationCarriesOn ==
  /\ pc = "returnStation"
  /\ IF page.end = "absent"
       THEN ShowToastAndEnd(tFehler) /\ UNCHANGED filled
       ELSE /\ filled' = IF storage.returnStation THEN Append(filled, "end") ELSE filled
            /\ pc' = "pickupDate"
            /\ UNCHANGED toasts
  /\ UNCHANGED <<inputs, allFiles, meta, stamp, ordered, entries, cardsHtml, output,
                 enc, prevRun, storage, page>>

FillReturnStation ==
  /\ pc = "returnStation"
  /\ FillAutocomplete("end", storage.returnStation, tRueckgabestation, "pickupDate")
  /\ UNCHANGED <<inputs, allFiles, meta, stamp, ordered, entries, cardsHtml, output,
                 enc, prevRun, storage, page>>

\* await setDate(selector, isoDate): returns at once without a date, throws when
\* the input is absent or the text is no date, and writes the input otherwise
SetDate(field, isoDate, next) ==
  IF isoDate = "missing"
    THEN pc' = next /\ UNCHANGED <<filled, toasts>>
  ELSE IF page[field] = "absent" \/ isoDate = "invalid"
    THEN ShowToastAndEnd(tFehler) /\ UNCHANGED filled
  ELSE /\ filled' = Append(filled, field)
       /\ pc' = next
       /\ UNCHANGED toasts

SetPickupDate ==
  /\ pc = "pickupDate"
  /\ SetDate("from", storage.pickupDate, "returnDate")
  /\ UNCHANGED <<inputs, allFiles, meta, stamp, ordered, entries, cardsHtml, output,
                 enc, prevRun, storage, page>>

SetReturnDate ==
  /\ pc = "returnDate"
  /\ SetDate("to", storage.returnDate, "pickupTime")
  /\ UNCHANGED <<inputs, allFiles, meta, stamp, ordered, entries, cardsHtml, output,
                 enc, prevRun, storage, page>>

\* await setTime(selector, timeValue): returns at once without a time, throws
\* when the select is absent or has no usable option, and sets it otherwise
SetTime(field, timeValue) ==
  IF timeValue = "missing" THEN "returned"
  ELSE IF page[field] # "present" THEN "thrown"
  ELSE "set"

SetPickupTime ==
  /\ pc = "pickupTime"
  /\ \E did \in {SetTime("heure_a", storage.pickupTime)} :
       /\ filled' = IF did = "set" THEN Append(filled, "heure_a") ELSE filled
       /\ IF did = "thrown" THEN ShowToastAndEnd(tFehler)
          ELSE pc' = "returnTime" /\ UNCHANGED toasts
  /\ UNCHANGED <<inputs, allFiles, meta, stamp, ordered, entries, cardsHtml, output,
                 enc, prevRun, storage, page>>

\* the last step, and showToast("Formular ausgefuellt.") after it
SetReturnTime ==
  /\ pc = "returnTime"
  /\ \E did \in {SetTime("heure_d", storage.returnTime)} :
       /\ filled' = IF did = "set" THEN Append(filled, "heure_d") ELSE filled
       /\ ShowToastAndEnd(IF did = "thrown" THEN tFehler ELSE tAusgefuellt)
  /\ UNCHANGED <<inputs, allFiles, meta, stamp, ordered, entries, cardsHtml, output,
                 enc, prevRun, storage, page>>

NextAutofill ==
  \/ ParseStorage
  \/ FillPickupStation
  \/ FillReturnStation
  \/ SetPickupDate
  \/ SetReturnDate
  \/ SetPickupTime
  \/ SetReturnTime

SpecAutofill == InitAutofill /\ [][NextAutofill]_vars

\* the position of a field among the steps
StepOf(field) == CHOOSE i \in 1..Len(Fields) : Fields[i] = field

\* step i cannot return normally: the station is not selected, or the step throws
Fails(i) ==
  CASE i = 1 -> page.start # "present" \/ ~storage.pickupStation
    [] i = 2 -> page.end # "present" \/ ~storage.returnStation
    [] i = 3 -> storage.pickupDate # "missing" /\
                (page.from = "absent" \/ storage.pickupDate = "invalid")
    [] i = 4 -> storage.returnDate # "missing" /\ page.to = "absent"
    [] i = 5 -> storage.pickupTime # "missing" /\ page.heure_a # "present"
    [] i = 6 -> storage.returnTime # "missing" /\ page.heure_d # "present"

\* the first step that cannot return normally; one past the last step when all can
FirstFailure == Least({i \in 1..Len(Fields) : Fails(i)}, Len(Fields) + 1)

\* C29: the autofill bookmarklet writes fields only in the order pickup station,
\* return station, pickup date, return date, pickup time, return time; without
\* stored data it writes nothing; when a station is not selected or a step throws
\* no field of a later step is written; toasts appear only when the run ends, then
\* exactly one, and it is the success toast exactly when all six steps returned
\* without failure.
C29_AutofillOrder ==
  /\ \A i, j \in 1..Len(filled) : i < j => StepOf(filled[i]) < StepOf(filled[j])
  /\ storage.kind # "data" => filled = <<>>
  /\ \A i \in 1..Len(filled) : StepOf(filled[i]) <= FirstFailure
  /\ Len(toasts) = (IF pc = "ended" THEN 1 ELSE 0)
  /\ pc = "ended" =>
       /\ toasts[1] = tAusgefuellt <=>
            storage.kind = "data" /\ FirstFailure = Len(Fields) + 1
       /\ toasts[1] = tKeineDaten <=> storage.kind # "data"

\* the return station was typed but no suggestion showed: both station fields are
\* written, nothing after them, although dates and times are stored
C29_Witness ==
  /\ pc = "ended"
  /\ toasts = <<tRueckgabestation>>
  /\ filled = <<"start", "end">>
  /\ storage.pickupDate = "date"
  /\ storage.returnTime = "time"
  /\ page.from = "present"
  /\ page.heure_d = "present"

====
